---- MODULE Spec2Model ----
(***************************************************************************)
(* State-machine model of the off-chain ledger of SimPredict:              *)
(* TradesService.recordTrade / updatePositionAfterTrade, the Solana        *)
(* listener (start and backfill with its checkpoint, live account-change   *)
(* handler, wallet indexing, stop), the portfolio sync, the RPC retry      *)
(* wrapper, the fee reconciliation job, the trade quote route and the      *)
(* routes that award points.  Every awaited database or RPC call of a      *)
(* handler is one step of the model; a step may also end in a thrown       *)
(* error.                                                                  *)
(*                                                                         *)
(* JavaScript numbers (amount, price, averageEntryPrice, realizedPnl) are  *)
(* modelled as exact rationals <<numerator, denominator>> in lowest terms. *)
(***************************************************************************)
EXTENDS Integers, Sequences, FiniteSets, TLC

(***************************************************************************)
(* Bounds of the model.                                                    *)
(***************************************************************************)
\* number of distinct transaction signatures
NSigs == 2
\* number of distinct transaction signatures in the position-accounting runs
NPosSigs == 3
\* number of account-change notifications that can be in flight at once
MaxHandlers == 3
\* number of fee reconciliation runs
MaxRuns == 2
\* the clock runs over the UTC days 0..MaxDay
MaxDay == 3
\* awards by /points/award/* are accepted while the ledger has fewer rows
MaxLedger == 3

Signatures == 1..NSigs
PosSignatures == 1..NPosSigs
Slots == 1..MaxHandlers
Wallets == {"w1", "w2"}
Procs == {"c1", "c2"}

(***************************************************************************)
(* Number arithmetic: +, -, *, / and Math.max on rationals.                *)
(***************************************************************************)
Abs(x) == IF x < 0 THEN 0 - x ELSE x

RECURSIVE GCD(_, _)
GCD(a, b) == IF b = 0 THEN a ELSE GCD(b, a % b)

\* n/d in lowest terms with a positive denominator (d # 0)
Rat(n, d) ==
    LET g == GCD(Abs(n), Abs(d))
        s == IF d < 0 THEN 0 - 1 ELSE 1
    IN  <<(s * n) \div g, (s * d) \div g>>

Num(i) == <<i, 1>>
Zero == Num(0)
RAdd(x, y) == Rat(x[1] * y[2] + y[1] * x[2], x[2] * y[2])
RSub(x, y) == Rat(x[1] * y[2] - y[1] * x[2], x[2] * y[2])
RMul(x, y) == Rat(x[1] * y[1], x[2] * y[2])
RDiv(x, y) == Rat(x[1] * y[2], x[2] * y[1])
RLt(x, y) == x[1] * y[2] < y[1] * x[2]
RLe(x, y) == x[1] * y[2] <= y[1] * x[2]
RMax(x, y) == IF RLt(x, y) THEN y ELSE x

(***************************************************************************)
(* The ledger store.  A table is a function whose domain is the set of     *)
(* keys that have a row (users, positions) or a set of rows (trades).      *)
(***************************************************************************)
VARIABLES
    markets,     \* marketId -> [yesTokenMint, noTokenMint, status]
    users,       \* walletAddress -> [lastTradeDate, currentStreak, highestStreak]
    positions,   \* <<walletAddress, marketId, tokenMint>> -> [amount, averageEntryPrice, realizedPnl]
    trades,      \* set of Trade rows
    clockDay,    \* the UTC day of new Date()
    calls,       \* recordTrade calls: Procs -> call frame
    chain,       \* the chain: signature -> the token transfers of the transaction
    balances,    \* the chain: <<owner, mint>> -> raw amount of the token account
    idx,         \* the frame of the indexTransactionForWallet call
    handlers,    \* the handleTokenAccountChange calls in flight: slot -> frame
    sync,        \* the frame of the syncWalletPositions call
    indexerState,\* the IndexerState table: id -> [lastSignature]
    lst,         \* the SolanaListener: isRunning, its subscription, the frame of start()
    rpc,         \* the frame of a SolanaService.withRetry call
    fee,         \* the frame of the FeeReconciliationJob worker
    revenue,     \* the ProtocolRevenue table: the rows in the order of their creation
    quote,       \* the frame of the POST /trade/quote request
    pointsBalance,\* the Points table: walletAddress -> balance
    pointsLedger,\* the PointsLedger table: the rows in the order of their creation
    faucet       \* the POST /onboarding/step3-faucet requests: Procs -> frame

ledger == <<users, positions, trades>>
\* what recordTrade, indexTransactionForWallet, the account-change handler
\* and syncWalletPositions each leave alone beside the ledger
apiVars == <<quote, pointsBalance, pointsLedger, faucet>>
jobVars == <<rpc, fee, revenue, apiVars>>
listenerVars == <<chain, balances, idx, handlers, sync, indexerState, lst, jobVars>>
nonIndexVars == <<calls, chain, balances, handlers, sync, indexerState, lst, jobVars>>
nonHandlerVars == <<calls, chain, idx, sync, indexerState, lst, jobVars>>
nonSyncVars == <<calls, chain, balances, idx, handlers, indexerState, lst, jobVars>>
vars ==
    <<markets, users, positions, trades, clockDay, calls, chain, balances, idx,
      handlers, sync, indexerState, lst, rpc, fee, revenue, quote, pointsBalance,
      pointsLedger, faucet>>

\* user.lastTradeDate of a user who never traded (null)
NullDate == 0 - 1

\* the row user.upsert creates: create: { walletAddress }
NewUser == [lastTradeDate |-> NullDate, currentStreak |-> 0, highestStreak |-> 0]

PosKey(d) == <<d.walletAddress, d.marketId, d.tokenMint>>

NoData ==
    [walletAddress |-> "w1", marketId |-> "m1", tokenMint |-> "y1", side |-> "BUY",
     price |-> Zero, amount |-> Zero, signature |-> 0]

IdleCall ==
    [pc |-> "idle", data |-> NoData, user |-> NewUser, today |-> 0,
     existing |-> {}, result |-> {}, dup |-> FALSE,
     streakDone |-> FALSE, tradeDone |-> FALSE, posDone |-> FALSE,
     emitFailed |-> FALSE]

\* the Trade row trade.create inserts for data
TradeRow(d) ==
    [signature |-> d.signature, walletAddress |-> d.walletAddress,
     marketId |-> d.marketId, tokenMint |-> d.tokenMint, side |-> d.side,
     price |-> d.price, amount |-> d.amount]

FindTradeAlwaysNull(sig) == {}

\* prisma.trade.findUnique({ where: { signature } }): the rows found
FindTrade(sig) == {t \in trades : t.signature = sig}

(***************************************************************************)
(* Streak computation of recordTrade.                                      *)
(***************************************************************************)
\* Math.ceil(Math.abs(today - lastTradeDate) / one day), both UTC midnights
DiffDays(last, today) == Abs(today - last)

StreakAfterNoReset(user, today) ==
    LET cur == IF user.lastTradeDate = NullDate THEN 1
               ELSE IF DiffDays(user.lastTradeDate, today) >= 1
                    THEN user.currentStreak + 1
                    ELSE user.currentStreak
    IN  [lastTradeDate |-> today, currentStreak |-> cur,
         highestStreak |-> IF cur > user.highestStreak THEN cur ELSE user.highestStreak]

StreakAfterNoHighest(user, today) ==
    LET cur == IF user.lastTradeDate = NullDate THEN 1
               ELSE IF DiffDays(user.lastTradeDate, today) = 1
                    THEN user.currentStreak + 1
                    ELSE IF DiffDays(user.lastTradeDate, today) > 1 THEN 1
                    ELSE user.currentStreak
    IN  [lastTradeDate |-> today, currentStreak |-> cur,
         highestStreak |-> user.highestStreak]

\* the data of user.update computed from the row user.upsert returned
StreakAfter(user, today) ==
    LET cur == IF user.lastTradeDate = NullDate THEN 1
               ELSE IF DiffDays(user.lastTradeDate, today) = 1
                    THEN user.currentStreak + 1
                    ELSE IF DiffDays(user.lastTradeDate, today) > 1 THEN 1
                    ELSE user.currentStreak
    IN  [lastTradeDate |-> today, currentStreak |-> cur,
         highestStreak |-> IF cur > user.highestStreak THEN cur ELSE user.highestStreak]

(***************************************************************************)
(* Position accounting of updatePositionAfterTrade.  existing is the set   *)
(* of rows position.findUnique returned (empty for null).                  *)
(***************************************************************************)
\* existing?.amount || 0
ExAmount(existing) == IF existing = {} THEN Zero ELSE (CHOOSE r \in existing : TRUE).amount
\* existing?.averageEntryPrice || 0
ExAvg(existing) ==
    IF existing = {} THEN Zero ELSE (CHOOSE r \in existing : TRUE).averageEntryPrice

BuyNewAmount(existing, d) == RAdd(ExAmount(existing), d.amount)

BuyNewAvgPriceLastPrice(existing, d) == d.price

BuyNewAvgPrice(existing, d) ==
    LET newAmount == BuyNewAmount(existing, d)
        totalCost == RAdd(RMul(ExAmount(existing), ExAvg(existing)), RMul(d.amount, d.price))
    IN  IF RLt(Zero, newAmount) THEN RDiv(totalCost, newAmount) ELSE d.price

SellNewAmountUnclamped(row, d) == RSub(row.amount, d.amount)

SellNewAmount(row, d) == RMax(Zero, RSub(row.amount, d.amount))

SellRealizedPnlNoBasis(row, d) == RAdd(row.realizedPnl, RMul(d.amount, d.price))

SellRealizedPnlOnHeld(row, d) ==
    RAdd(row.realizedPnl,
         RMul(IF RLt(row.amount, d.amount) THEN row.amount ELSE d.amount,
              RSub(d.price, row.averageEntryPrice)))

SellRealizedPnl(row, d) ==
    RAdd(row.realizedPnl, RMul(d.amount, RSub(d.price, row.averageEntryPrice)))

\* position.upsert of the BUY branch
PositionsAfterBuy(existing, d) ==
    LET k == PosKey(d)
        amt == BuyNewAmount(existing, d)
        avg == BuyNewAvgPrice(existing, d)
    IN  IF k \in DOMAIN positions
        THEN [positions EXCEPT ![k].amount = amt, ![k].averageEntryPrice = avg]
        ELSE [x \in DOMAIN positions \cup {k} |->
                IF x = k
                THEN [amount |-> amt, averageEntryPrice |-> avg, realizedPnl |-> Zero]
                ELSE positions[x]]

\* position.update of the SELL branch
PositionsAfterSell(row, d) ==
    [positions EXCEPT ![PosKey(d)].amount = SellNewAmount(row, d),
                      ![PosKey(d)].realizedPnl = SellRealizedPnl(row, d)]

(***************************************************************************)
(* recordTrade, one action per awaited call.                               *)
(***************************************************************************)
Ended(p) == calls[p].pc \in {"idle", "done", "failed"}

\* the frame of a call that returned or threw: its locals are gone, what it
\* did and what it returned are kept for the caller
EndCall(frame, pc) ==
    [frame EXCEPT !.pc = pc, !.user = NewUser, !.today = 0, !.existing = {}]

\* a caller invokes recordTrade(data)
RecordTradeBegin(p, d) ==
    /\ Ended(p)
    /\ calls' = [calls EXCEPT ![p] = [IdleCall EXCEPT !.pc = "findTrade", !.data = d]]
    /\ UNCHANGED <<markets, users, positions, trades, clockDay, listenerVars>>

\* const exists = await trade.findUnique(...); if (exists) return exists
RecordTradeFindTrade(p) ==
    /\ calls[p].pc = "findTrade"
    /\ LET exists == FindTrade(calls[p].data.signature)
       IN  calls' = [calls EXCEPT ![p] =
                IF exists # {}
                THEN EndCall([@ EXCEPT !.result = exists, !.dup = TRUE], "done")
                ELSE [@ EXCEPT !.pc = "upsertUser"]]
    /\ UNCHANGED <<markets, users, positions, trades, clockDay, listenerVars>>

\* const user = await user.upsert(...); today and the streak are computed
\* from the returned row before the next await
RecordTradeUpsertUser(p) ==
    /\ calls[p].pc = "upsertUser"
    /\ LET w == calls[p].data.walletAddress
           row == IF w \in DOMAIN users THEN users[w] ELSE NewUser
       IN  /\ users' = [x \in DOMAIN users \cup {w} |-> IF x = w THEN row ELSE users[x]]
           /\ calls' = [calls EXCEPT ![p].pc = "updateUser", ![p].user = row,
                                     ![p].today = clockDay]
    /\ UNCHANGED <<markets, positions, trades, clockDay, listenerVars>>

\* await user.update({ data: { lastTradeDate: today, currentStreak, highestStreak } })
RecordTradeUpdateUser(p) ==
    /\ calls[p].pc = "updateUser"
    /\ users' = [users EXCEPT ![calls[p].data.walletAddress] =
                    StreakAfter(calls[p].user, calls[p].today)]
    /\ calls' = [calls EXCEPT ![p].pc = "createTrade", ![p].streakDone = TRUE]
    /\ UNCHANGED <<markets, positions, trades, clockDay, listenerVars>>

\* const trade = await trade.create(...); signature is a unique column, so the
\* insert of a second row with the signature throws
RecordTradeCreateTrade(p) ==
    /\ calls[p].pc = "createTrade"
    /\ IF FindTrade(calls[p].data.signature) # {}
       THEN /\ calls' = [calls EXCEPT ![p] = EndCall(@, "failed")]
            /\ UNCHANGED trades
       ELSE /\ trades' = trades \cup {TradeRow(calls[p].data)}
            /\ calls' = [calls EXCEPT ![p].pc = "findPosition", ![p].tradeDone = TRUE,
                                      ![p].result = {TradeRow(calls[p].data)}]
    /\ UNCHANGED <<markets, users, positions, clockDay, listenerVars>>

\* trade.create has inserted the row; tradesIndexedSuccessfully.inc() or
\* indexerLagSeconds.set(lag) throws: the two calls are in no try/catch, the
\* error leaves recordTrade before updatePositionAfterTrade
RecordTradeEmitThrow(p) ==
    /\ calls[p].pc = "createTrade"
    /\ FindTrade(calls[p].data.signature) = {}
    /\ trades' = trades \cup {TradeRow(calls[p].data)}
    /\ calls' = [calls EXCEPT ![p] =
                    EndCall([@ EXCEPT !.tradeDone = TRUE, !.emitFailed = TRUE], "failed")]
    /\ UNCHANGED <<markets, users, positions, clockDay, listenerVars>>

\* const existing = await position.findUnique(...)
RecordTradeFindPosition(p) ==
    /\ calls[p].pc = "findPosition"
    /\ LET k == PosKey(calls[p].data)
           existing == IF k \in DOMAIN positions THEN {positions[k]} ELSE {}
       IN  calls' = [calls EXCEPT ![p] =
                IF calls[p].data.side = "BUY"
                THEN [@ EXCEPT !.pc = "writePosition", !.existing = existing]
                ELSE IF calls[p].data.side = "SELL" /\ existing # {}
                     THEN [@ EXCEPT !.pc = "writePosition", !.existing = existing]
                     ELSE EndCall([@ EXCEPT !.posDone = TRUE], "done")]
    /\ UNCHANGED <<markets, users, positions, trades, clockDay, listenerVars>>

\* BUY: await position.upsert(...); SELL on an existing position: await
\* position.update(...), which throws when the row is gone
RecordTradeWritePosition(p) ==
    /\ calls[p].pc = "writePosition"
    /\ IF calls[p].data.side = "BUY"
       THEN /\ positions' = PositionsAfterBuy(calls[p].existing, calls[p].data)
            /\ calls' = [calls EXCEPT ![p] = EndCall([@ EXCEPT !.posDone = TRUE], "done")]
       ELSE IF PosKey(calls[p].data) \in DOMAIN positions
            THEN /\ positions' = PositionsAfterSell(CHOOSE r \in calls[p].existing : TRUE,
                                                    calls[p].data)
                 /\ calls' = [calls EXCEPT ![p] =
                                EndCall([@ EXCEPT !.posDone = TRUE], "done")]
            ELSE /\ calls' = [calls EXCEPT ![p] = EndCall(@, "failed")]
                 /\ UNCHANGED positions
    /\ UNCHANGED <<markets, users, trades, clockDay, listenerVars>>

\* an awaited database call rejects: recordTrade has no try/catch, the error
\* propagates to the caller and what was written stays written
RecordTradeThrow(p) ==
    /\ ~Ended(p)
    /\ calls' = [calls EXCEPT ![p] = EndCall(@, "failed")]
    /\ UNCHANGED <<markets, users, positions, trades, clockDay, listenerVars>>

\* midnight UTC passes
Tick ==
    /\ clockDay < MaxDay
    /\ clockDay' = clockDay + 1
    /\ UNCHANGED <<markets, users, positions, trades, calls, listenerVars>>

RecordTradeStep(p) ==
    \/ RecordTradeFindTrade(p)
    \/ RecordTradeUpsertUser(p)
    \/ RecordTradeUpdateUser(p)
    \/ RecordTradeCreateTrade(p)
    \/ RecordTradeEmitThrow(p)
    \/ RecordTradeFindPosition(p)
    \/ RecordTradeWritePosition(p)
    \/ RecordTradeThrow(p)

(***************************************************************************)
(* SolanaListener.indexTransactionForWallet, one action per awaited call.  *)
(***************************************************************************)
IdleIndex ==
    [pc |-> "idle", walletAddress |-> "w1", mintMap |-> <<>>, signatures |-> <<>>,
     transfers |-> <<>>, clean |-> FALSE, rerun |-> FALSE]

IndexEnded == idx.pc \in {"idle", "done"}

\* the frame of a call that returned: its locals are gone.  clean and rerun
\* are the record of a run begun by IndexBeginRecorded: no fetch failed and no
\* call rejected during the run; the run follows a clean run for the wallet
EndIndex(frame) ==
    [IdleIndex EXCEPT !.pc = "done", !.walletAddress = frame.walletAddress,
                      !.clean = frame.clean, !.rerun = frame.rerun]

\* marketMintMap: mint -> marketId over the markets found
MarketMintMap(found) ==
    [m \in {markets[i].yesTokenMint : i \in found} \cup {markets[i].noTokenMint : i \in found}
        |-> CHOOSE i \in found : m \in {markets[i].yesTokenMint, markets[i].noTokenMint}]

Involves(tx, w) == \E i \in DOMAIN tx : tx[i].toWallet = w \/ tx[i].fromWallet = w

\* getSignaturesForAddress: the signatures of the transactions that involve
\* the address, newest first
RECURSIVE HistoryFrom(_, _)
HistoryFrom(g, w) ==
    IF g < 1 THEN <<>>
    ELSE IF Involves(chain[g], w) THEN <<g>> \o HistoryFrom(g - 1, w)
         ELSE HistoryFrom(g - 1, w)

\* getTransactionHistory(walletAddress, { limit: 100 })
HistoryLimit == 100
TransactionHistory(w) ==
    LET all == HistoryFrom(NSigs, w)
    IN  SubSeq(all, 1, IF Len(all) < HistoryLimit THEN Len(all) ELSE HistoryLimit)

\* a row whose side is always BUY
IndexedRowAlwaysBuy(w, g, transfer, mintMap) ==
    [signature |-> g, walletAddress |-> w, marketId |-> mintMap[transfer.tokenMint],
     tokenMint |-> transfer.tokenMint, side |-> "BUY",
     price |-> Zero, amount |-> transfer.amount]

\* the row of the create branch of trade.upsert
IndexedRow(w, g, transfer, mintMap) ==
    [signature |-> g, walletAddress |-> w, marketId |-> mintMap[transfer.tokenMint],
     tokenMint |-> transfer.tokenMint,
     side |-> IF transfer.toWallet = w THEN "BUY" ELSE "SELL",
     price |-> Zero, amount |-> transfer.amount]

TradesAfterUpsertOverwrite(row) == {t \in trades : t.signature # row.signature} \cup {row}

\* trade.upsert({ where: { signature }, create: row, update: {} })
TradesAfterUpsert(row) == IF FindTrade(row.signature) # {} THEN trades ELSE trades \cup {row}

IndexBegin(w) ==
    /\ IndexEnded
    /\ idx' = [IdleIndex EXCEPT !.pc = "findMarkets", !.walletAddress = w]
    /\ UNCHANGED <<markets, users, positions, trades, clockDay, nonIndexVars>>

\* the same entry, with the record of the run kept: clean until a fetch fails
\* or a call rejects, rerun when the run before was clean and for the wallet
IndexBeginRecorded(w) ==
    /\ IndexEnded
    /\ idx' = [IdleIndex EXCEPT !.pc = "findMarkets", !.walletAddress = w, !.clean = TRUE,
                                !.rerun = idx.pc = "done" /\ idx.clean /\ idx.walletAddress = w]
    /\ UNCHANGED <<markets, users, positions, trades, clockDay, nonIndexVars>>

\* const markets = await market.findMany({ where: { status: 'active' } })
IndexFindMarkets ==
    /\ idx.pc = "findMarkets"
    /\ idx' = [idx EXCEPT !.pc = "getHistory",
                  !.mintMap = MarketMintMap({i \in DOMAIN markets : markets[i].status = "active"})]
    /\ UNCHANGED <<markets, users, positions, trades, clockDay, nonIndexVars>>

\* const signatures = await getTransactionHistory(walletAddress, { limit: 100 })
IndexGetHistory ==
    /\ idx.pc = "getHistory"
    /\ idx' = [idx EXCEPT !.pc = "findTrade", !.signatures = TransactionHistory(idx.walletAddress)]
    /\ UNCHANGED <<markets, users, positions, trades, clockDay, nonIndexVars>>

\* for (const sigInfo of signatures): exists = await trade.findUnique(...);
\* if (exists) continue
IndexFindTrade ==
    /\ idx.pc = "findTrade"
    /\ idx' = IF idx.signatures = <<>> THEN EndIndex(idx)
              ELSE IF FindTrade(Head(idx.signatures)) # {}
                   THEN [idx EXCEPT !.signatures = Tail(@)]
                   ELSE [idx EXCEPT !.pc = "parse"]
    /\ UNCHANGED <<markets, users, positions, trades, clockDay, nonIndexVars>>

\* const transfers = await parseTokenTransfers(signature): the transfers of
\* the transaction, or none when the transaction could not be fetched
IndexParse ==
    /\ idx.pc = "parse"
    /\ \E transfers \in {chain[Head(idx.signatures)], <<>>} :
            idx' = IF transfers = <<>>
                   THEN [idx EXCEPT !.pc = "findTrade", !.signatures = Tail(@),
                                    !.clean = FALSE]
                   ELSE [idx EXCEPT !.pc = "transfer", !.transfers = transfers]
    /\ UNCHANGED <<markets, users, positions, trades, clockDay, nonIndexVars>>

\* for (const transfer of transfers): skip a transfer of an unknown mint or
\* not involving the wallet, else await trade.upsert(...)
IndexTransfer ==
    /\ idx.pc = "transfer"
    /\ LET transfer == Head(idx.transfers)
           w == idx.walletAddress
           skip == \/ transfer.tokenMint \notin DOMAIN idx.mintMap
                   \/ (transfer.toWallet # w /\ transfer.fromWallet # w)
       IN  /\ trades' = IF skip THEN trades
                        ELSE TradesAfterUpsert(
                                IndexedRow(w, Head(idx.signatures), transfer, idx.mintMap))
           /\ idx' = IF Tail(idx.transfers) = <<>>
                     THEN [idx EXCEPT !.pc = "findTrade", !.signatures = Tail(@),
                                      !.transfers = <<>>]
                     ELSE [idx EXCEPT !.transfers = Tail(@)]
    /\ UNCHANGED <<markets, users, positions, clockDay, nonIndexVars>>

\* an awaited call rejects: the catch of indexTransactionForWallet logs the
\* error and the call returns
IndexThrow ==
    /\ ~IndexEnded
    /\ idx' = EndIndex([idx EXCEPT !.clean = FALSE])
    /\ UNCHANGED <<markets, users, positions, trades, clockDay, nonIndexVars>>

IndexStep ==
    \/ IndexFindMarkets
    \/ IndexGetHistory
    \/ IndexFindTrade
    \/ IndexParse
    \/ IndexTransfer
    \/ IndexThrow

(***************************************************************************)
(* The live listener: the callback registered by subscribeToTokenProgram   *)
(* calls handleTokenAccountChange for every notification as it arrives, so *)
(* several calls can be in flight; one action per awaited call.            *)
(***************************************************************************)
FreeHandler ==
    [pc |-> "free", mint |-> "y1", owner |-> "w1", amount |-> 0, marketId |-> "m1",
     decimals |-> 0]

InFlight == {h \in Slots : handlers[h].pc # "free"}

\* capacity of the live queue
QueueCapacity == 2

\* decimals of the mints on chain (getMint)
MintDecimals(mint) == IF mint \in {"y1", "y2"} THEN 6 ELSE 0

\* mintInfo?.decimals || 6, mintInfo being null when getMintInfo failed
DefaultDecimals == 6
DecimalsOr6(found) ==
    IF found = {} THEN DefaultDecimals
    ELSE LET dec == CHOOSE x \in found : TRUE IN IF dec = 0 THEN DefaultDecimals ELSE dec

RECURSIVE Pow10(_)
Pow10(n) == IF n = 0 THEN 1 ELSE 10 * Pow10(n - 1)

\* amount / Math.pow(10, decimals)
UiAmount(raw, decimals) == Rat(raw, Pow10(decimals))

\* a lookup by mint alone
FindMarketAnyStatus(mint) ==
    {i \in DOMAIN markets : mint \in {markets[i].yesTokenMint, markets[i].noTokenMint}}

\* market.findFirst({ where: { OR: [{yesTokenMint}, {noTokenMint}], status: 'active' } })
FindActiveMarket(mint) ==
    {i \in DOMAIN markets :
        /\ mint \in {markets[i].yesTokenMint, markets[i].noTokenMint}
        /\ markets[i].status = "active"}

\* position.upsert({ create: { amount, averageEntryPrice: 0 }, update: { amount } })
PositionsAfterObserved(k, amount) ==
    IF k \in DOMAIN positions
    THEN [positions EXCEPT ![k].amount = amount]
    ELSE [x \in DOMAIN positions \cup {k} |->
            IF x = k
            THEN [amount |-> amount, averageEntryPrice |-> Zero, realizedPnl |-> Zero]
            ELSE positions[x]]

\* the token account <<owner, mint>> changes on chain to the raw amount and
\* the subscription delivers the account: the callback starts
\* handleTokenAccountChange in slot h, which decodes mint, owner and amount
\* and awaits market.findFirst
AccountChange(h, owner, mint, raw) ==
    /\ handlers[h].pc = "free"
    /\ balances' = [x \in DOMAIN balances \cup {<<owner, mint>>} |->
                        IF x = <<owner, mint>> THEN raw ELSE balances[x]]
    /\ handlers' = [handlers EXCEPT ![h] =
                        [FreeHandler EXCEPT !.pc = "findMarket", !.mint = mint,
                                            !.owner = owner, !.amount = raw]]
    /\ UNCHANGED <<markets, users, positions, trades, clockDay, nonHandlerVars>>

\* const market = await market.findFirst(...); if (!market) return
HandlerFindMarket(h) ==
    /\ handlers[h].pc = "findMarket"
    /\ LET found == FindActiveMarket(handlers[h].mint)
       IN  handlers' = [handlers EXCEPT ![h] =
                IF found = {} THEN FreeHandler
                ELSE [@ EXCEPT !.pc = "upsertUser", !.marketId = CHOOSE i \in found : TRUE]]
    /\ UNCHANGED <<markets, users, positions, trades, clockDay, balances, nonHandlerVars>>

\* await user.upsert({ create: { walletAddress: owner }, update: {} })
HandlerUpsertUser(h) ==
    /\ handlers[h].pc = "upsertUser"
    /\ LET w == handlers[h].owner
       IN  users' = [x \in DOMAIN users \cup {w} |->
                        IF x \in DOMAIN users THEN users[x] ELSE NewUser]
    /\ handlers' = [handlers EXCEPT ![h].pc = "getMintInfo"]
    /\ UNCHANGED <<markets, positions, trades, clockDay, balances, nonHandlerVars>>

\* const mintInfo = await getMintInfo(mint), null when the fetch failed;
\* const decimals = mintInfo?.decimals || 6
HandlerGetMintInfo(h) ==
    /\ handlers[h].pc = "getMintInfo"
    /\ \E found \in {{MintDecimals(handlers[h].mint)}, {}} :
            handlers' = [handlers EXCEPT ![h].pc = "upsertPosition",
                                         ![h].decimals = DecimalsOr6(found)]
    /\ UNCHANGED <<markets, users, positions, trades, clockDay, balances, nonHandlerVars>>

\* await position.upsert(...) with amount: uiAmount
HandlerUpsertPosition(h) ==
    /\ handlers[h].pc = "upsertPosition"
    /\ positions' = PositionsAfterObserved(
                        <<handlers[h].owner, handlers[h].marketId, handlers[h].mint>>,
                        UiAmount(handlers[h].amount, handlers[h].decimals))
    /\ handlers' = [handlers EXCEPT ![h] = FreeHandler]
    /\ UNCHANGED <<markets, users, trades, clockDay, balances, nonHandlerVars>>

\* an awaited call rejects: control passes to the catch of
\* handleTokenAccountChange; the locals declared after the decoding are gone
HandlerThrow(h) ==
    /\ handlers[h].pc \notin {"free", "caught", "rejected"}
    /\ handlers' = [handlers EXCEPT ![h] =
                        [FreeHandler EXCEPT !.pc = "caught", !.mint = handlers[h].mint,
                                            !.owner = handlers[h].owner,
                                            !.amount = handlers[h].amount]]
    /\ UNCHANGED <<markets, users, positions, trades, clockDay, balances, nonHandlerVars>>

\* a catch that would throw again: the promise of the call rejects
AfterCatchRethrow(frame) == [frame EXCEPT !.pc = "rejected"]

\* the catch block: logger.error(...), and the call returns normally
AfterCatch(frame) == FreeHandler

HandlerCatch(h) ==
    /\ handlers[h].pc = "caught"
    /\ handlers' = [handlers EXCEPT ![h] = AfterCatch(handlers[h])]
    /\ UNCHANGED <<markets, users, positions, trades, clockDay, balances, nonHandlerVars>>

HandlerStep(h) ==
    \/ HandlerFindMarket(h)
    \/ HandlerUpsertUser(h)
    \/ HandlerGetMintInfo(h)
    \/ HandlerUpsertPosition(h)
    \/ HandlerThrow(h)
    \/ HandlerCatch(h)

(***************************************************************************)
(* PortfolioService.syncWalletPositions, one action per awaited call.      *)
(***************************************************************************)
IdleSync == [pc |-> "idle", walletAddress |-> "w1", balanceMap |-> <<>>, todo |-> <<>>]

SyncEnded == sync.pc \in {"idle", "done"}

EndSync(frame) == [IdleSync EXCEPT !.pc = "done", !.walletAddress = frame.walletAddress]

RECURSIVE SeqOfSet(_)
SeqOfSet(S) ==
    IF S = {} THEN <<>>
    ELSE LET x == CHOOSE y \in S : TRUE IN <<x>> \o SeqOfSet(S \ {x})

\* for (const market of markets) for (tokenMint of [yesTokenMint, noTokenMint])
RECURSIVE MintsOfMarkets(_)
MintsOfMarkets(ms) ==
    IF ms = <<>> THEN <<>>
    ELSE <<<<Head(ms), markets[Head(ms)].yesTokenMint>>,
           <<Head(ms), markets[Head(ms)].noTokenMint>>>> \o MintsOfMarkets(Tail(ms))

\* getTokenBalances: mint -> tokenAmount.uiAmount || 0 of the owner's token accounts
TokenBalances(w) ==
    [m \in {x[2] : x \in {y \in DOMAIN balances : y[1] = w}} |->
        UiAmount(balances[<<w, m>>], MintDecimals(m))]

SyncBegin(w) ==
    /\ SyncEnded
    /\ sync' = [IdleSync EXCEPT !.pc = "findMarkets", !.walletAddress = w]
    /\ UNCHANGED <<markets, users, positions, trades, clockDay, nonSyncVars>>

\* const markets = await market.findMany({ where: { status: 'active' } })
SyncFindMarkets ==
    /\ sync.pc = "findMarkets"
    /\ sync' = [sync EXCEPT !.pc = "getBalances",
                    !.todo = MintsOfMarkets(
                        SeqOfSet({i \in DOMAIN markets : markets[i].status = "active"}))]
    /\ UNCHANGED <<markets, users, positions, trades, clockDay, nonSyncVars>>

\* const tokenBalances = await getTokenBalances(walletAddress)
SyncGetBalances ==
    /\ sync.pc = "getBalances"
    /\ sync' = [sync EXCEPT !.pc = "entry", !.balanceMap = TokenBalances(sync.walletAddress)]
    /\ UNCHANGED <<markets, users, positions, trades, clockDay, nonSyncVars>>

\* one (market, tokenMint) of the loop: no balance -> continue; uiAmount > 0 ->
\* await position.upsert(...); after the last one the cache key is deleted
SyncEntry ==
    /\ sync.pc = "entry"
    /\ IF sync.todo = <<>>
       THEN /\ sync' = EndSync(sync)
            /\ UNCHANGED positions
       ELSE LET marketId == Head(sync.todo)[1]
                tokenMint == Head(sync.todo)[2]
                write == /\ tokenMint \in DOMAIN sync.balanceMap
                         /\ RLt(Zero, sync.balanceMap[tokenMint])
            IN  /\ positions' =
                        IF write
                        THEN PositionsAfterObserved(
                                <<sync.walletAddress, marketId, tokenMint>>,
                                sync.balanceMap[tokenMint])
                        ELSE positions
                /\ sync' = [sync EXCEPT !.todo = Tail(@)]
    /\ UNCHANGED <<markets, users, trades, clockDay, nonSyncVars>>

\* an awaited call rejects: the catch of syncWalletPositions logs the error
SyncThrow ==
    /\ ~SyncEnded
    /\ sync' = EndSync(sync)
    /\ UNCHANGED <<markets, users, positions, trades, clockDay, nonSyncVars>>

SyncStep ==
    \/ SyncFindMarkets
    \/ SyncGetBalances
    \/ SyncEntry
    \/ SyncThrow

(***************************************************************************)
(* POST /trade/quote: the checks of the router, TradesService.getTradeQuote *)
(* and AggregatorService.getTradeQuote, one action per awaited call, and   *)
(* the response errorHandler or res.json sends.  requested records that    *)
(* the aggregator was asked for a quote.                                   *)
(***************************************************************************)
\* wallets of a request body: none, a base58 public key, 0x and 40 hex
\* digits, 0x and 40 other characters, any other text
NoWallet == ""
SolanaWallet == "w1"
EthWallet == "0x52908400098527886E0F7030069857D2E4169EE7"
EthShapedWallet == "0xnot-a-hex-string-of-forty-characters!!!"
OtherWallet == "invalid_wallet"

\* amounts of a request body: kind "missing" (undefined), "number",
\* "numeric" (a string Number() converts to n) or "text" (Number() gives NaN)
NoAmount == [kind |-> "missing", n |-> 0]
NumberAmount(n) == [kind |-> "number", n |-> n]
NumericAmount(n) == [kind |-> "numeric", n |-> n]
TextAmount == [kind |-> "text", n |-> 0]

\* !amount
AmountFalsy(amount) == amount.kind = "missing" \/ (amount.kind = "number" /\ amount.n = 0)
\* isNaN(Number(amount))
AmountNaN(amount) == amount.kind \in {"missing", "text"}

\* solana.validatePublicKey(wallet): new PublicKey(wallet) does not throw
ValidatePublicKey(wallet) == wallet = SolanaWallet
\* params.wallet.startsWith('0x') && params.wallet.length === 42
IsEthAddress(wallet) == wallet \in {EthWallet, EthShapedWallet}

NoQuoteData ==
    [marketId |-> "", side |-> "", tokenMint |-> "", amount |-> 0,
     serializedTransaction |-> ""]

IdleQuote ==
    [pc |-> "idle", wallet |-> NoWallet, marketId |-> "", side |-> "", amount |-> NoAmount,
     tokenMint |-> "", status |-> 0, error |-> "", data |-> NoQuoteData,
     requested |-> FALSE]

\* the response: errorHandler sends { error, status } for an AppError
QuoteError(frame, status, message) ==
    [frame EXCEPT !.pc = "responded", !.status = status, !.error = message]

\* the checks of the router, in order; "" when the body passes them
RouterError(wallet, marketId, side, amount) ==
    IF wallet = NoWallet THEN "wallet is required"
    ELSE IF marketId = "" THEN "marketId is required"
    ELSE IF side = "" \/ side \notin {"YES", "NO"} THEN "side must be YES or NO"
    ELSE IF AmountFalsy(amount) \/ AmountNaN(amount) \/ amount.n <= 0
         THEN "amount must be a positive number"
         ELSE ""

\* the checks of TradesService.getTradeQuote before its first await
ServiceError(wallet, n) ==
    IF ~IsEthAddress(wallet) /\ ~ValidatePublicKey(wallet)
    THEN "Invalid wallet address (must be valid Solana or Ethereum address)"
    ELSE IF n <= 0 THEN "Amount must be positive"
    ELSE ""

\* a tokenMint that is always the yes mint
QuoteTokenMintYes(side, market) == market.yesTokenMint

\* const tokenMint = params.side === 'YES' ? market.yesTokenMint : market.noTokenMint
QuoteTokenMint(side, market) ==
    IF side = "YES" THEN market.yesTokenMint ELSE market.noTokenMint

\* { marketId: params.marketId, side: params.side, tokenMint, amount, ...quote }:
\* the quote has the fields of TradeQuoteResponse
QuoteData(frame, serializedTransaction) ==
    [marketId |-> frame.marketId, side |-> frame.side, tokenMint |-> frame.tokenMint,
     amount |-> frame.amount.n, serializedTransaction |-> serializedTransaction]

\* the request arrives: the router's checks, then getTradeQuote up to
\* await market.findUnique
QuoteRequest(wallet, marketId, side, amount) ==
    /\ quote.pc \in {"idle", "responded"}
    /\ LET frame == [IdleQuote EXCEPT !.wallet = wallet, !.marketId = marketId,
                                      !.side = side, !.amount = amount]
           routerError == RouterError(wallet, marketId, side, amount)
           serviceError == ServiceError(wallet, amount.n)
       IN  quote' = IF routerError # "" THEN QuoteError(frame, 400, routerError)
                    ELSE IF serviceError # "" THEN QuoteError(frame, 400, serviceError)
                    ELSE [frame EXCEPT !.pc = "findMarket"]
    /\ UNCHANGED <<markets, users, positions, trades, clockDay, calls, chain, balances, idx,
                   handlers, sync, indexerState, lst, rpc, fee, revenue, pointsBalance,
                   pointsLedger, faucet>>

\* const market = await market.findUnique(...); the two checks on the market;
\* tokenMint; aggregator.getTradeQuote passes validateTradeParams and awaits
\* limitlessClient.post
QuoteFindMarket ==
    /\ quote.pc = "findMarket"
    /\ quote' = IF quote.marketId \notin DOMAIN markets
                THEN QuoteError(quote, 404, "Market not found")
                ELSE IF markets[quote.marketId].status # "active"
                     THEN QuoteError(quote, 400, "Market is not active")
                     ELSE [quote EXCEPT !.pc = "aggregator", !.requested = TRUE,
                               !.tokenMint = QuoteTokenMint(quote.side,
                                                            markets[quote.marketId])]
    /\ UNCHANGED <<markets, users, positions, trades, clockDay, calls, chain, balances, idx,
                   handlers, sync, indexerState, lst, rpc, fee, revenue, pointsBalance,
                   pointsLedger, faucet>>

\* limitlessClient.post resolves with a quote, or rejects and the fallback
\* quote is taken, or resolves without a serializedTransaction (502)
QuoteAggregator(outcome) ==
    /\ quote.pc = "aggregator"
    /\ quote' =
        IF outcome = "invalid"
        THEN QuoteError(quote, 502, "Aggregator returned invalid trade quote response")
        ELSE [quote EXCEPT !.pc = "responded", !.status = 200,
                           !.data = QuoteData(quote, IF outcome = "quote" THEN "tx"
                                                     ELSE "mock_tx_data")]
    /\ UNCHANGED <<markets, users, positions, trades, clockDay, calls, chain, balances, idx,
                   handlers, sync, indexerState, lst, rpc, fee, revenue, pointsBalance,
                   pointsLedger, faucet>>

\* market.findUnique rejects: errorHandler answers 500
QuoteThrow ==
    /\ quote.pc = "findMarket"
    /\ quote' = QuoteError(quote, 500, "Internal server error")
    /\ UNCHANGED <<markets, users, positions, trades, clockDay, calls, chain, balances, idx,
                   handlers, sync, indexerState, lst, rpc, fee, revenue, pointsBalance,
                   pointsLedger, faucet>>

(***************************************************************************)
(* PointsService.awardPoints and the routes that call it (POST             *)
(* /onboarding/step3-faucet, /points/award/social, /points/award/daily_    *)
(* login), one action per awaited call.  pointsBalance and pointsLedger    *)
(* are the committed Points and PointsLedger tables; pending holds the     *)
(* writes of a transaction that has not committed.  The frame of a request *)
(* keeps its response status and, in failedAt, the call that rejected.     *)
(***************************************************************************)
TutorialReason == "completed_tutorial"

IdleFaucet ==
    [pc |-> "idle", wallet |-> NoWallet, amount |-> 0, reason |-> "", status |-> 0,
     pending |-> <<>>, failedAt |-> ""]

nonPointsVars ==
    <<markets, users, positions, trades, clockDay, calls, chain, balances, idx, handlers,
      sync, indexerState, lst, rpc, fee, revenue, quote>>

RequestEnded(p) == faucet[p].pc \in {"idle", "responded"}

Respond(frame, status) == [frame EXCEPT !.pc = "responded", !.status = status, !.pending = <<>>]

\* tx.points.upsert({ where: { walletAddress }, create: { walletAddress,
\* balance: amount }, update: { balance: { increment: amount } } })
PointsAfterUpsert(table, walletAddress, amount) ==
    IF walletAddress \in DOMAIN table
    THEN [table EXCEPT ![walletAddress] = @ + amount]
    ELSE [w \in DOMAIN table \cup {walletAddress} |->
            IF w = walletAddress THEN amount ELSE table[w]]

\* the tables with the writes of a transaction applied, in order
RECURSIVE ApplyWrites(_, _)
ApplyWrites(tables, pending) ==
    IF pending = <<>> THEN tables
    ELSE LET w == Head(pending)
         IN  ApplyWrites(
                IF w.table = "points"
                THEN [tables EXCEPT !.points = PointsAfterUpsert(@, w.walletAddress, w.amount)]
                ELSE [tables EXCEPT !.ledger = Append(@, [walletAddress |-> w.walletAddress,
                                                          amount |-> w.amount,
                                                          reason |-> w.reason])],
                Tail(pending))

\* the two calls made on prisma instead of tx: a write stays when a later
\* call rejects
AfterTxThrowNoRollback(tables, pending) == ApplyWrites(tables, pending)

\* prisma.$transaction(async (tx) => { ... }): the callback rejects and the
\* writes made through tx are rolled back
AfterTxThrow(tables, pending) == tables

\* the row of the wallet in Points is locked by a transaction that has
\* written it and not ended
RowLocked(p, walletAddress) ==
    \E q \in Procs \ {p} :
        /\ faucet[q].pending # <<>>
        /\ faucet[q].wallet = walletAddress

\* awardPoints(walletAddress, amount, reason): validatePublicKey, else
\* AppError 400; then the transaction begins
AwardCall(frame) ==
    IF ValidatePublicKey(frame.wallet) THEN [frame EXCEPT !.pc = "upsert"]
    ELSE Respond(frame, 400)

\* POST /onboarding/step3-faucet: the body is parsed, pointsLedger.findFirst
\* is awaited
FaucetRequest(p, wallet) ==
    /\ RequestEnded(p)
    /\ faucet' = [faucet EXCEPT ![p] = [IdleFaucet EXCEPT !.pc = "findFirst", !.wallet = wallet,
                                                         !.amount = 100,
                                                         !.reason = TutorialReason]]
    /\ UNCHANGED <<pointsBalance, pointsLedger, nonPointsVars>>

\* const ledger = await prisma.pointsLedger.findFirst({ where: { walletAddress,
\* reason: 'completed_tutorial' } }); if (ledger) throw AppError(..., 400);
\* else awardPoints(wallet, 100, 'completed_tutorial')
FaucetFindFirst(p) ==
    /\ faucet[p].pc = "findFirst"
    /\ LET found == \E k \in DOMAIN pointsLedger :
                        /\ pointsLedger[k].walletAddress = faucet[p].wallet
                        /\ pointsLedger[k].reason = TutorialReason
       IN  faucet' = [faucet EXCEPT ![p] = IF found THEN Respond(@, 400) ELSE AwardCall(@)]
    /\ UNCHANGED <<pointsBalance, pointsLedger, nonPointsVars>>

\* POST /points/award/social (50 points, the reason of the body) and POST
\* /points/award/daily_login (10 points): awardPoints is called at once
AwardRequest(p, wallet, amount, reason) ==
    /\ RequestEnded(p)
    /\ Len(pointsLedger) < MaxLedger
    /\ faucet' = [faucet EXCEPT ![p] = AwardCall([IdleFaucet EXCEPT !.wallet = wallet,
                                                                   !.amount = amount,
                                                                   !.reason = reason])]
    /\ UNCHANGED <<pointsBalance, pointsLedger, nonPointsVars>>

\* const points = await tx.points.upsert(...): waits while another
\* transaction holds the row
AwardUpsert(p) ==
    /\ faucet[p].pc = "upsert"
    /\ ~RowLocked(p, faucet[p].wallet)
    /\ faucet' = [faucet EXCEPT ![p].pc = "create",
                                ![p].pending = <<[table |-> "points",
                                                  walletAddress |-> faucet[p].wallet,
                                                  amount |-> faucet[p].amount,
                                                  reason |-> faucet[p].reason]>>]
    /\ UNCHANGED <<pointsBalance, pointsLedger, nonPointsVars>>

\* await tx.pointsLedger.create(...); return points: the transaction
\* commits and the route answers 200
AwardCreate(p) ==
    /\ faucet[p].pc = "create"
    /\ LET writes == Append(faucet[p].pending,
                            [table |-> "ledger", walletAddress |-> faucet[p].wallet,
                             amount |-> faucet[p].amount, reason |-> faucet[p].reason])
           tables == ApplyWrites([points |-> pointsBalance, ledger |-> pointsLedger], writes)
       IN  /\ pointsBalance' = tables.points
           /\ pointsLedger' = tables.ledger
    /\ faucet' = [faucet EXCEPT ![p] = Respond(@, 200)]
    /\ UNCHANGED nonPointsVars

\* an awaited call rejects (pointsLedger.findFirst, tx.points.upsert or
\* tx.pointsLedger.create): the error handler answers 500
AwardThrow(p) ==
    /\ faucet[p].pc \in {"findFirst", "upsert", "create"}
    /\ LET tables == AfterTxThrow([points |-> pointsBalance, ledger |-> pointsLedger],
                                  faucet[p].pending)
       IN  /\ pointsBalance' = tables.points
           /\ pointsLedger' = tables.ledger
    /\ faucet' = [faucet EXCEPT ![p] = [Respond(@, 500) EXCEPT !.failedAt = faucet[p].pc]]
    /\ UNCHANGED nonPointsVars

(***************************************************************************)
(* SolanaService.withRetry(fn): the loop over the attempts, one action per *)
(* awaited call (fn(), the delay).  outcomes[k] is what the k-th call of   *)
(* fn does: "ok" or the error it rejects with.  attempts and delays record *)
(* the calls of fn made and the delays waited, in ms.                      *)
(***************************************************************************)
MAX_RETRIES == 3
RETRY_DELAY_MS == 1000

IdleRpc ==
    [pc |-> "idle", outcomes |-> <<>>, i |-> 0, attempts |-> 0, delays |-> <<>>,
     lastError |-> "Unknown error"]

RpcErrors == {"e1", "e2"}

\* a delay that does not grow
RetryDelayFixed(i) == RETRY_DELAY_MS

\* const delay = this.RETRY_DELAY_MS * Math.pow(2, i)
RetryDelay(i) == RETRY_DELAY_MS * 2^i

\* withRetry(fn) with retries = this.MAX_RETRIES: let lastError; i = 0; the
\* loop begins with await fn()
RpcBegin(outcomes) ==
    /\ rpc.pc \in {"idle", "returned", "thrown"}
    /\ rpc' = [IdleRpc EXCEPT !.pc = "call", !.outcomes = outcomes]
    /\ UNCHANGED <<markets, users, positions, trades, clockDay, calls, chain, balances, idx,
                   handlers, sync, indexerState, lst, fee, revenue, apiVars>>

\* try { return await fn() } catch (error) { lastError = error;
\*   if (i < retries - 1) { delay = ...; await new Promise(setTimeout) } };
\* after the last attempt: throw lastError
RpcCall ==
    /\ rpc.pc = "call"
    /\ LET outcome == rpc.outcomes[rpc.attempts + 1]
           called == [rpc EXCEPT !.attempts = @ + 1]
       IN  rpc' = IF outcome = "ok" THEN [called EXCEPT !.pc = "returned"]
                  ELSE IF rpc.i < MAX_RETRIES - 1
                       THEN [called EXCEPT !.pc = "sleep", !.lastError = outcome,
                                           !.delays = Append(@, RetryDelay(rpc.i))]
                       ELSE [called EXCEPT !.pc = "thrown", !.lastError = outcome]
    /\ UNCHANGED <<markets, users, positions, trades, clockDay, calls, chain, balances, idx,
                   handlers, sync, indexerState, lst, fee, revenue, apiVars>>

\* the delay is over: i++, the next attempt
RpcWake ==
    /\ rpc.pc = "sleep"
    /\ rpc' = [rpc EXCEPT !.pc = "call", !.i = @ + 1]
    /\ UNCHANGED <<markets, users, positions, trades, clockDay, calls, chain, balances, idx,
                   handlers, sync, indexerState, lst, fee, revenue, apiVars>>

(***************************************************************************)
(* FeeReconciliationJob: the worker and reconcileFees, one action per      *)
(* awaited call.  Nothing in the repository writes Trade.fee, so the       *)
(* result of trade.groupBy is an input.  handled, alerts, grouped and      *)
(* fetches record what the run did: the groups it reconciled, the alerts   *)
(* it raised, whether it aggregated the trades, its balance fetches.       *)
(***************************************************************************)
\* _sum.fee of a group whose rows all have fee null
NullFee == <<0, 0>>
\* getSpecificTokenBalance returned null
NoBalance == <<0 - 1, 0>>

MissingTreasury == "Fee Discordance - Missing Treasury ATA"
LedgerMismatch == "Fee Ledger Mismatch"
ReconciliationFailed == "Fee Reconciliation Failed"
NoAlert == "none"

IdleFee ==
    [pc |-> "idle", run |-> 0, treasury |-> FALSE, webhook |-> FALSE, startLen |-> 0,
     groups |-> <<>>, todo |-> <<>>, actual |-> Zero, balanceInfo |-> NoBalance,
     title |-> NoAlert, handled |-> <<>>, alerts |-> <<>>, grouped |-> FALSE,
     fetches |-> 0, fetchFailed |-> FALSE]

FeeEnded == fee.pc \in {"idle", "done", "failed"}

\* const expectedAmount = group._sum.fee || 0
FeeOr0(sum) == IF sum = NullFee THEN Zero ELSE sum

\* const actualAmount = balanceInfo ? balanceInfo.uiAmount : 0
ActualAmount(balanceInfo) == IF balanceInfo = NoBalance THEN Zero ELSE balanceInfo

\* reconcileFees without the TREASURY_WALLET check
FirstStepNoCheck(treasury) == "groupBy"

\* if (!config.TREASURY_WALLET) { logger.warn(...); return }
FirstStep(treasury) == IF treasury THEN "groupBy" ELSE "done"

\* the mismatch alert from a divergence of 1% on
AlertForAtLeast(expectedAmount, actualAmount) ==
    LET diff == RMax(RSub(expectedAmount, actualAmount), RSub(actualAmount, expectedAmount))
    IN  IF actualAmount = Zero /\ RLt(Zero, expectedAmount) THEN MissingTreasury
        ELSE IF RLt(Zero, actualAmount) /\ RLe(Rat(1, 100), RDiv(diff, actualAmount))
             THEN LedgerMismatch
             ELSE NoAlert

\* diff = Math.abs(expectedAmount - actualAmount);
\* if (actualAmount === 0 && expectedAmount > 0) ... else if (actualAmount > 0
\* && (diff / actualAmount) > 0.01) ...
AlertFor(expectedAmount, actualAmount) ==
    LET diff == RMax(RSub(expectedAmount, actualAmount), RSub(actualAmount, expectedAmount))
    IN  IF actualAmount = Zero /\ RLt(Zero, expectedAmount) THEN MissingTreasury
        ELSE IF RLt(Zero, actualAmount) /\ RLt(Rat(1, 100), RDiv(diff, actualAmount))
             THEN LedgerMismatch
             ELSE NoAlert

\* for (const group of expectedFees) { if (expectedAmount === 0) continue; ...
RECURSIVE SkipZero(_)
SkipZero(todo) ==
    IF todo = <<>> THEN <<>>
    ELSE IF FeeOr0(Head(todo).sum) = Zero THEN SkipZero(Tail(todo))
    ELSE todo

\* the loop goes on to the next group with a nonzero expected amount, or ends
NextGroup(frame, todo) ==
    LET rest == SkipZero(todo)
    IN  IF rest = <<>> THEN [frame EXCEPT !.pc = "done", !.todo = <<>>]
        ELSE [frame EXCEPT !.pc = "balance", !.todo = rest]

\* a protocolRevenue.upsert on (marketId, assetMint)
RevenueAfterUpsert(rev, row) ==
    IF \E k \in DOMAIN rev : rev[k].marketId = row.marketId /\ rev[k].assetMint = row.assetMint
    THEN [k \in DOMAIN rev |->
            IF rev[k].marketId = row.marketId /\ rev[k].assetMint = row.assetMint
            THEN row ELSE rev[k]]
    ELSE Append(rev, row)

\* prisma.protocolRevenue.create({ data: { marketId, assetMint, amount } })
RevenueAfterCreate(rev, row) == Append(rev, row)

\* what sendAlert's delivery can do: no webhook configured, or axios.post
\* resolves or rejects
AlertOutcomes(webhook) == IF webhook THEN {"delivered", "failed"} ELSE {"skipped"}

\* a sendAlert that lets the rejection of axios.post through
AfterAlertPropagate(frame, outcome) ==
    IF outcome = "failed" THEN [frame EXCEPT !.pc = "failed"] ELSE frame

\* sendAlert: try { await axios.post(...) } catch (err) { logger.error(...) }
AfterAlert(frame, outcome) == frame

\* the worker takes a job: reconcileFees begins
FeeBegin(treasury, webhook) ==
    /\ FeeEnded
    /\ fee.run < MaxRuns
    /\ fee' = [IdleFee EXCEPT !.pc = FirstStep(treasury), !.run = fee.run + 1,
                               !.treasury = treasury, !.webhook = webhook,
                               !.startLen = Len(revenue)]
    /\ UNCHANGED <<markets, users, positions, trades, clockDay, calls, chain, balances, idx,
                   handlers, sync, indexerState, lst, rpc, revenue, apiVars>>

\* await this.prisma.trade.groupBy({ by: ['marketId', 'tokenMint'], _sum: { fee } })
FeeGroupBy(groups) ==
    /\ fee.pc = "groupBy"
    /\ fee' = NextGroup([fee EXCEPT !.groups = groups, !.grouped = TRUE], groups)
    /\ UNCHANGED <<markets, users, positions, trades, clockDay, calls, chain, balances, idx,
                   handlers, sync, indexerState, lst, rpc, revenue, apiVars>>

\* await this.solana.getSpecificTokenBalance(treasuryAddress, mint)
FeeGetBalance(balanceInfo) ==
    /\ fee.pc = "balance"
    /\ fee' = [fee EXCEPT !.pc = "create", !.balanceInfo = balanceInfo,
                          !.actual = ActualAmount(balanceInfo), !.fetches = @ + 1]
    /\ UNCHANGED <<markets, users, positions, trades, clockDay, calls, chain, balances, idx,
                   handlers, sync, indexerState, lst, rpc, revenue, apiVars>>

\* await this.prisma.protocolRevenue.create(...), then the choice of the alert
FeeCreateRevenue ==
    /\ fee.pc = "create"
    /\ LET group == Head(fee.todo)
           expectedAmount == FeeOr0(group.sum)
           title == AlertFor(expectedAmount, fee.actual)
           created == [fee EXCEPT !.title = title,
                                  !.handled = Append(@, [marketId |-> group.marketId,
                                                         tokenMint |-> group.tokenMint,
                                                         expected |-> expectedAmount,
                                                         balanceInfo |-> fee.balanceInfo,
                                                         fetchFailed |-> fee.fetchFailed,
                                                         alert |-> title])]
       IN  /\ revenue' = RevenueAfterCreate(revenue, [marketId |-> group.marketId,
                                                      assetMint |-> group.tokenMint,
                                                      amount |-> expectedAmount])
           /\ fee' = IF title = NoAlert THEN NextGroup(created, Tail(fee.todo))
                     ELSE [created EXCEPT !.pc = "alert"]
    /\ UNCHANGED <<markets, users, positions, trades, clockDay, calls, chain, balances, idx,
                   handlers, sync, indexerState, lst, rpc, apiVars>>

\* await this.alertService.sendAlert(title, message)
FeeSendAlert(outcome) ==
    /\ fee.pc = "alert"
    /\ outcome \in AlertOutcomes(fee.webhook)
    /\ fee' = AfterAlert(NextGroup([fee EXCEPT !.alerts = Append(@, [title |-> fee.title,
                                                                      outcome |-> outcome])],
                                   Tail(fee.todo)),
                         outcome)
    /\ UNCHANGED <<markets, users, positions, trades, clockDay, calls, chain, balances, idx,
                   handlers, sync, indexerState, lst, rpc, revenue, apiVars>>

\* trade.groupBy or protocolRevenue.create rejects: the worker's catch sends
\* the 'Fee Reconciliation Failed' alert and rethrows
FeeThrow(outcome) ==
    /\ fee.pc \in {"groupBy", "create"}
    /\ outcome \in AlertOutcomes(fee.webhook)
    /\ fee' = [fee EXCEPT !.pc = "failed",
                          !.alerts = Append(@, [title |-> ReconciliationFailed,
                                                outcome |-> outcome])]
    /\ UNCHANGED <<markets, users, positions, trades, clockDay, calls, chain, balances, idx,
                   handlers, sync, indexerState, lst, rpc, revenue, apiVars>>

\* getSpecificTokenBalance that lets the error of withRetry through: the run
\* ends in the worker's catch
AfterFetchRethrow(frame, thrown, accountBalance) ==
    IF thrown
    THEN [frame EXCEPT !.pc = "failed", !.fetches = @ + 1, !.fetchFailed = TRUE,
                       !.alerts = Append(@, [title |-> ReconciliationFailed,
                                             outcome |-> "skipped"])]
    ELSE [frame EXCEPT !.pc = "create", !.balanceInfo = accountBalance,
                       !.actual = ActualAmount(accountBalance), !.fetches = @ + 1,
                       !.fetchFailed = FALSE]

\* getSpecificTokenBalance: try { accountInfo = await withRetry(...);
\* if (!accountInfo.value) return null; ... return { uiAmount } }
\* catch (error) { return null }, then actualAmount in reconcileFees
AfterFetch(frame, thrown, accountBalance) ==
    LET balanceInfo == IF thrown THEN NoBalance ELSE accountBalance
    IN  [frame EXCEPT !.pc = "create", !.balanceInfo = balanceInfo,
                      !.actual = ActualAmount(balanceInfo), !.fetches = @ + 1,
                      !.fetchFailed = thrown]

\* getSpecificTokenBalance begins: withRetry(() => getParsedAccountInfo(ata))
FeeFetchBegin(outcomes) ==
    /\ fee.pc = "balance"
    /\ fee' = [fee EXCEPT !.pc = "fetch"]
    /\ rpc' = [IdleRpc EXCEPT !.pc = "call", !.outcomes = outcomes]
    /\ UNCHANGED <<markets, users, positions, trades, clockDay, calls, chain, balances, idx,
                   handlers, sync, indexerState, lst, revenue, apiVars>>

\* withRetry has returned the account (accountBalance: NoBalance for a null
\* value) or thrown; getSpecificTokenBalance returns to reconcileFees
FeeFetchEnd(accountBalance) ==
    /\ fee.pc = "fetch"
    /\ rpc.pc \in {"returned", "thrown"}
    /\ fee' = AfterFetch(fee, rpc.pc = "thrown", accountBalance)
    /\ UNCHANGED <<markets, users, positions, trades, clockDay, calls, chain, balances, idx,
                   handlers, sync, indexerState, lst, rpc, revenue, apiVars>>

(***************************************************************************)
(* SolanaListener.start: recoverMissedEvents (the backfill over the mints   *)
(* of the active markets, with the IndexerState checkpoint) and then        *)
(* subscribeToTokenProgram; one action per awaited call.  Signatures are    *)
(* numbered in chain order.  The fields visited, backfilled and fetchError  *)
(* of the frame record what the run has done so far.                        *)
(***************************************************************************)
\* lastSignature: null
NullSignature == 0

StoppedListener ==
    [pc |-> "stopped", isRunning |-> FALSE, subscribed |-> FALSE,
     lastSignature |-> NullSignature, mints |-> <<>>, signatures |-> <<>>,
     fetched |-> FALSE, visited |-> {}, backfilled |-> {}, fetchError |-> FALSE,
     subscriptionIds |-> <<>>, registered |-> {}, stopPc |-> "idle", stopTodo |-> <<>>,
     asked |-> {}, removeFailed |-> FALSE]

\* the id onProgramAccountChange returns for the subscription of a process
SubId == 1

\* the mints of the markets with status 'active'
ActiveMints(ms) ==
    UNION {{ms[i].yesTokenMint, ms[i].noTokenMint} : i \in {j \in DOMAIN ms : ms[j].status = "active"}}

\* the listener after start() has returned with its subscription registered
Subscribed ==
    [StoppedListener EXCEPT !.pc = "started", !.isRunning = TRUE, !.subscribed = TRUE,
                            !.subscriptionIds = <<SubId>>, !.registered = {SubId}]

\* the row of the checkpoint: lastSignature, null when there is no row yet
Checkpoint ==
    IF "singleton" \in DOMAIN indexerState THEN indexerState["singleton"].lastSignature
    ELSE NullSignature

\* indexerState.upsert({ create: { id: 'singleton', lastSignature: null }, update: {} })
IndexerStateAfterUpsert ==
    IF "singleton" \in DOMAIN indexerState THEN indexerState
    ELSE [x \in {"singleton"} |-> [lastSignature |-> NullSignature]]

\* for (const market of markets): market.yesTokenMint, then market.noTokenMint
BackfillMintsYesOnly(found) == [i \in DOMAIN found |-> markets[found[i]].yesTokenMint]

RECURSIVE BackfillMints(_)
BackfillMints(found) ==
    IF found = <<>> THEN <<>>
    ELSE <<markets[Head(found)].yesTokenMint, markets[Head(found)].noTokenMint>>
            \o BackfillMints(Tail(found))

\* a transaction is in the history of a mint when one of its transfers names it
InvolvesMint(tx, mint) == \E i \in DOMAIN tx : tx[i].tokenMint = mint

ChainTip == Cardinality(DOMAIN chain)

\* getSignaturesForAddress(mint, { until }): the signatures of the mint that
\* follow until in chain order (all of them without until), newest first
SignaturesFor(tip, mint, until) ==
    LET found == {g \in (until + 1)..tip : InvolvesMint(chain[g], mint)}
    IN  [i \in 1..Cardinality(found) |->
            CHOOSE g \in found : Cardinality({x \in found : x > g}) = i - 1]

\* getTransactionHistory(mint, { limit: 100, after: untilSignature || undefined })
MintHistory(mint, untilSignature) ==
    LET all == SignaturesFor(ChainTip, mint, untilSignature)
    IN  SubSeq(all, 1, IF Len(all) < HistoryLimit THEN Len(all) ELSE HistoryLimit)

\* signatures.reverse()
Reverse(q) == [i \in 1..Len(q) |-> q[Len(q) + 1 - i]]

\* indexTransactionsForMint returns: the loop of recoverMissedEvents goes on
\* with the next mint, and after the last one start() goes on to subscribe
EndMintPass(frame) ==
    LET rest == Tail(frame.mints)
    IN  [frame EXCEPT !.mints = rest, !.signatures = <<>>, !.fetched = FALSE,
                      !.backfilled = @ \cup {Head(frame.mints)},
                      !.pc = IF rest = <<>> THEN "subscribe" ELSE "history"]

nonListenerVars == <<calls, chain, balances, idx, handlers, sync, jobVars>>

\* start(): if (this.isRunning) return; this.isRunning = true; then
\* recoverMissedEvents awaits indexerState.upsert
ListenerStart ==
    /\ lst.pc = "stopped" /\ ~lst.isRunning
    /\ lst' = [StoppedListener EXCEPT !.pc = "upsertState", !.isRunning = TRUE]
    /\ UNCHANGED <<markets, users, positions, trades, clockDay, indexerState, nonListenerVars>>

\* const state = await indexerState.upsert(...)
ListenerUpsertState ==
    /\ lst.pc = "upsertState"
    /\ indexerState' = IndexerStateAfterUpsert
    /\ lst' = [lst EXCEPT !.pc = "findMarkets", !.lastSignature = Checkpoint]
    /\ UNCHANGED <<markets, users, positions, trades, clockDay, nonListenerVars>>

\* const markets = await market.findMany({ where: { status: 'active' } }), and
\* the loop over them begins
ListenerFindMarkets ==
    /\ lst.pc = "findMarkets"
    /\ LET found == SeqOfSet({i \in DOMAIN markets : markets[i].status = "active"})
           mints == BackfillMints(found)
       IN  lst' = [lst EXCEPT !.mints = mints,
                              !.pc = IF mints = <<>> THEN "subscribe" ELSE "history"]
    /\ UNCHANGED <<markets, users, positions, trades, clockDay, indexerState, nonListenerVars>>

\* indexTransactionsForMint(mint, state.lastSignature):
\* const signatures = await getTransactionHistory(...);
\* if (signatures.length === 0) return; else the loop over signatures.reverse()
ListenerGetHistory ==
    /\ lst.pc = "history"
    /\ LET signatures == MintHistory(Head(lst.mints), lst.lastSignature)
       IN  lst' = IF signatures = <<>> THEN EndMintPass(lst)
                  ELSE [lst EXCEPT !.pc = "parse", !.signatures = Reverse(signatures)]
    /\ UNCHANGED <<markets, users, positions, trades, clockDay, indexerState, nonListenerVars>>

\* updatePositionFromTransfer(transfer): the body is empty
UpdatePositionFromTransfer(pos, transfer) == pos

\* for (const transfer of transfers)
\*   if (transfer.tokenMint === mint) await updatePositionFromTransfer(transfer)
RECURSIVE PositionsAfterTransfers(_, _, _)
PositionsAfterTransfers(pos, transfers, mint) ==
    IF transfers = <<>> THEN pos
    ELSE PositionsAfterTransfers(
            IF Head(transfers).tokenMint = mint
            THEN UpdatePositionFromTransfer(pos, Head(transfers))
            ELSE pos,
            Tail(transfers), mint)

\* const transfers = await parseTokenTransfers(sigInfo.signature): the
\* transfers of the transaction, or [] when getParsedTransaction failed after
\* its retries and returned null; then the loop over the transfers
ListenerParse ==
    /\ lst.pc = "parse"
    /\ \E ok \in BOOLEAN :
        LET transfers == IF ok THEN chain[Head(lst.signatures)] ELSE <<>>
        IN  /\ lst' = [lst EXCEPT !.pc = "updateState", !.fetched = ok,
                                  !.fetchError = @ \/ ~ok]
            /\ positions' = PositionsAfterTransfers(positions, transfers, Head(lst.mints))
    /\ UNCHANGED <<markets, users, trades, clockDay, indexerState, nonListenerVars>>

\* await indexerState.update({ data: { lastSignature: sigInfo.signature } }),
\* then the next signature, or the return after the last one
ListenerUpdateState ==
    /\ lst.pc = "updateState"
    /\ "singleton" \in DOMAIN indexerState
    /\ LET g == Head(lst.signatures)
           after == [lst EXCEPT !.visited = @ \cup {g}, !.signatures = Tail(@),
                                !.fetched = FALSE]
       IN  /\ indexerState' = [indexerState EXCEPT !["singleton"].lastSignature = g]
           /\ lst' = IF after.signatures = <<>> THEN EndMintPass(after)
                     ELSE [after EXCEPT !.pc = "parse"]
    /\ UNCHANGED <<markets, users, positions, trades, clockDay, nonListenerVars>>

\* a catch that would throw again: recoverMissedEvents and start() reject
AfterMintRethrow(frame) == [frame EXCEPT !.pc = "failed"]

\* the catch of indexTransactionsForMint: logger.error(...), the call returns
AfterMintCatch(frame) == EndMintPass(frame)

\* an awaited call of indexTransactionsForMint rejects (getTransactionHistory
\* after its retries, indexerState.update): the catch logs the error and the
\* call returns
ListenerMintThrow ==
    /\ lst.pc \in {"history", "updateState"}
    /\ lst' = [AfterMintCatch(lst) EXCEPT !.fetchError = TRUE]
    /\ UNCHANGED <<markets, users, positions, trades, clockDay, indexerState, nonListenerVars>>

\* indexerState.upsert or market.findMany of recoverMissedEvents rejects:
\* start() rejects, nothing is subscribed
ListenerStartThrow ==
    /\ lst.pc \in {"upsertState", "findMarkets"}
    /\ lst' = [lst EXCEPT !.pc = "failed", !.fetchError = TRUE]
    /\ UNCHANGED <<markets, users, positions, trades, clockDay, indexerState, nonListenerVars>>

\* subscribeToTokenProgram: await market.findMany(...), onProgramAccountChange,
\* subscriptionIds.push(subId); when market.findMany rejects the catch logs
\* the error and nothing is subscribed; start() returns
ListenerSubscribe ==
    /\ lst.pc = "subscribe"
    /\ \E ok \in BOOLEAN :
            lst' = IF ok
                   THEN [lst EXCEPT !.pc = "started", !.subscribed = TRUE,
                                    !.subscriptionIds = Append(@, SubId),
                                    !.registered = @ \cup {SubId}]
                   ELSE [lst EXCEPT !.pc = "started", !.subscribed = FALSE]
    /\ UNCHANGED <<markets, users, positions, trades, clockDay, indexerState, nonListenerVars>>

\* stop(): for (const id of this.subscriptionIds) { ... }; after the loop
\* this.subscriptionIds = [] and stop() returns
StopLoop(frame) ==
    IF frame.stopTodo = <<>>
    THEN [frame EXCEPT !.stopPc = "returned", !.subscriptionIds = <<>>]
    ELSE [frame EXCEPT !.stopPc = "removing"]

\* a stop() that lets the rejection of the removal through
AfterRemoveRethrow(frame, ok) ==
    IF ok THEN frame ELSE [frame EXCEPT !.stopPc = "failed"]

\* try { await removeProgramAccountChangeListener(id) } catch (err) { logger.warn(...) }
AfterRemove(frame, ok) == frame

\* shutdown calls stop() (the signal handlers are registered once start() has
\* returned): this.isRunning = false, then the loop over subscriptionIds
ListenerStop ==
    /\ lst.pc = "started"
    /\ lst.stopPc = "idle"
    /\ lst' = StopLoop([lst EXCEPT !.isRunning = FALSE, !.stopTodo = lst.subscriptionIds])
    /\ UNCHANGED <<markets, users, positions, trades, clockDay, indexerState, nonListenerVars>>

\* stop() called on the listener while its start() is still in
\* recoverMissedEvents or about to subscribe: this.isRunning = false, the loop
\* over the subscriptionIds, empty so far, and stop() returns
ListenerStopDuringStart ==
    /\ lst.pc \in {"upsertState", "findMarkets", "history", "parse", "updateState", "subscribe"}
    /\ lst.stopPc = "idle"
    /\ lst' = StopLoop([lst EXCEPT !.isRunning = FALSE, !.stopTodo = lst.subscriptionIds])
    /\ UNCHANGED <<markets, users, positions, trades, clockDay, indexerState, nonListenerVars>>

\* await this.wsConnection.removeProgramAccountChangeListener(id): the
\* subscription is gone when the call resolves and stays when it rejects
ListenerStopRemove(ok) ==
    /\ lst.stopPc = "removing"
    /\ LET id == Head(lst.stopTodo)
       IN  lst' = AfterRemove(StopLoop([lst EXCEPT !.asked = @ \cup {id},
                                                   !.subscribed = IF ok THEN FALSE ELSE @,
                                                   !.removeFailed = @ \/ ~ok,
                                                   !.stopTodo = Tail(@)]),
                              ok)
    /\ UNCHANGED <<markets, users, positions, trades, clockDay, indexerState, nonListenerVars>>

\* the process ends (shutdown or crash) and a new one is booted: every call
\* in flight is gone, the database stays
ProcessRestart ==
    /\ lst.pc # "stopped"
    /\ lst' = StoppedListener
    /\ calls' = [p \in Procs |-> IdleCall]
    /\ idx' = IdleIndex
    /\ handlers' = [h \in Slots |-> FreeHandler]
    /\ sync' = IdleSync
    /\ rpc' = IdleRpc
    /\ fee' = [IdleFee EXCEPT !.run = fee.run]
    /\ quote' = IdleQuote
    /\ faucet' = [p \in Procs |-> IdleFaucet]
    /\ UNCHANGED <<markets, users, positions, trades, clockDay, indexerState, chain, balances,
                   revenue, pointsBalance, pointsLedger>>

ListenerStep ==
    \/ ListenerUpsertState
    \/ ListenerFindMarkets
    \/ ListenerGetHistory
    \/ ListenerParse
    \/ ListenerUpdateState
    \/ ListenerMintThrow
    \/ ListenerStartThrow
    \/ ListenerSubscribe

\* MarketsRepository.upsertMarket of the market sync: update: { status }
UpsertMarketStatus(i, status) ==
    /\ markets[i].status # status
    /\ markets' = [markets EXCEPT ![i].status = status]
    /\ UNCHANGED <<users, positions, trades, clockDay, indexerState, lst, nonListenerVars>>


(***************************************************************************)
(* Initial state: an empty ledger, one active and one inactive market.     *)
(***************************************************************************)
InitMarkets ==
    [m \in {"m1", "m2"} |->
        IF m = "m1"
        THEN [yesTokenMint |-> "y1", noTokenMint |-> "n1", status |-> "active"]
        ELSE [yesTokenMint |-> "y2", noTokenMint |-> "n2", status |-> "closed"]]

Init ==
    /\ markets = InitMarkets
    /\ users = <<>>
    /\ positions = <<>>
    /\ trades = {}
    /\ clockDay = 0
    /\ calls = [p \in Procs |-> IdleCall]
    /\ chain = [g \in Signatures |-> <<>>]
    /\ balances = <<>>
    /\ idx = IdleIndex
    /\ handlers = [h \in Slots |-> FreeHandler]
    /\ sync = IdleSync
    /\ indexerState = <<>>
    /\ lst = Subscribed
    /\ rpc = IdleRpc
    /\ fee = IdleFee
    /\ revenue = <<>>
    /\ quote = IdleQuote
    /\ pointsBalance = <<>>
    /\ pointsLedger = <<>>
    /\ faucet = [p \in Procs |-> IdleFaucet]

(***************************************************************************)
(* Spec: recordTrade calls made one after the other (a call begins when    *)
(* the previous one has returned or thrown), on a running calendar.        *)
(***************************************************************************)
\* the signatures a caller may pass: one already recorded, or the next new one
\* (signatures are opaque, so new ones are taken in order)
KnownSignatures == {t.signature : t \in trades}
CallSignatures(sigs) == {g \in sigs : g <= Cardinality(KnownSignatures) + 1}
NewSignatures(sigs) == {g \in sigs : g = Cardinality(KnownSignatures) + 1}

StreakInputs ==
    {[walletAddress |-> w, marketId |-> "m1", tokenMint |-> "y1", side |-> "BUY",
      price |-> Num(1), amount |-> Num(4), signature |-> g] :
        w \in Wallets, g \in CallSignatures(Signatures)}

Next ==
    \/ \E d \in StreakInputs : RecordTradeBegin("c1", d)
    \/ RecordTradeStep("c1")
    \/ Tick

Spec == Init /\ [][Next]_vars

(***************************************************************************)
(* Claims settled under Spec.                                              *)
(***************************************************************************)
RowsWithSignature(g) == {t \in trades : t.signature = g}

\* C1: a recordTrade call whose signature already has a Trade row returns that
\* row and changes nothing in the ledger (users, positions, trades), and at
\* every time a signature has at most one Trade row.
C1_Idempotent ==
    /\ [](\A g \in KnownSignatures : Cardinality(RowsWithSignature(g)) <= 1)
    /\ [][\A p \in Procs :
            (/\ calls[p].pc = "findTrade"
             /\ RowsWithSignature(calls[p].data.signature) # {}
             /\ calls'[p] # calls[p])
            => /\ UNCHANGED ledger
               /\ calls'[p].pc \in {"done", "failed"}
               /\ calls'[p].pc = "done" =>
                     calls'[p].result = RowsWithSignature(calls[p].data.signature)]_vars

\* a second call with a recorded signature and other fields has returned the
\* row of the first call
C1_Witness ==
    \E p \in Procs :
        /\ calls[p].pc = "done" /\ calls[p].dup
        /\ calls[p].result # {TradeRow(calls[p].data)}
        /\ calls[p].result = RowsWithSignature(calls[p].data.signature)
        /\ Cardinality(calls[p].result) = 1
        /\ calls[p].data.walletAddress \notin DOMAIN users
        /\ PosKey(calls[p].data) \notin DOMAIN positions

\* C2: when a recordTrade call that found no row for its signature has ended
\* (returned or thrown), the streak update, the Trade row and the Position
\* update of that call are all applied or none is.
C2_Atomic ==
    \A p \in Procs :
        (calls[p].pc \in {"done", "failed"} /\ ~calls[p].dup)
        => /\ calls[p].streakDone = calls[p].tradeDone
           /\ calls[p].tradeDone = calls[p].posDone

C5_HighestStreak ==
    /\ [](\A w \in DOMAIN users : users[w].highestStreak >= users[w].currentStreak)
    /\ [][\A w \in DOMAIN users :
            users'[w].highestStreak >= users[w].highestStreak]_vars

\* a user whose streak was reset below the highest streak reached, while
\* another recordTrade call of that user is about to update the streak
C5_Witness ==
    \E p \in Procs :
        /\ calls[p].pc = "updateUser"
        /\ calls[p].user.highestStreak > calls[p].user.currentStreak
        /\ calls[p].user.currentStreak >= 1

(***************************************************************************)
(* SpecPos: recordTrade calls made one after the other on the positions of *)
(* one wallet, BUY and SELL at several prices and amounts.                 *)
(***************************************************************************)
Prices == {Num(1), Num(2)}
Amounts == {Num(4), Num(10)}
Mints == {"y1"}

RECURSIVE SumAmounts(_)
SumAmounts(S) ==
    IF S = {} THEN Zero
    ELSE LET t == CHOOSE x \in S : TRUE IN RAdd(t.amount, SumAmounts(S \ {t}))

\* the Trade rows of a position key, and the total amount of its BUY rows
RowsOfKey(k) == {t \in trades : PosKey(t) = k}
TotalBought(k) == SumAmounts({t \in RowsOfKey(k) : t.side = "BUY"})

\* a SELL of everything bought on a held position at its average entry price
CloseOutInputs ==
    {[walletAddress |-> k[1], marketId |-> k[2], tokenMint |-> k[3], side |-> "SELL",
      price |-> positions[k].averageEntryPrice, amount |-> TotalBought(k),
      signature |-> g] :
        k \in {x \in DOMAIN positions : RLt(Zero, TotalBought(x))},
        g \in NewSignatures(PosSignatures)}

PosInputs ==
    {[walletAddress |-> "w1", marketId |-> "m1", tokenMint |-> m, side |-> s,
      price |-> pr, amount |-> a, signature |-> g] :
        m \in Mints, s \in {"BUY", "SELL"}, pr \in Prices, a \in Amounts,
        g \in NewSignatures(PosSignatures)}
    \cup CloseOutInputs

NextPos ==
    \/ \E d \in PosInputs : RecordTradeBegin("c1", d)
    \/ RecordTradeStep("c1")

SpecPos == Init /\ [][NextPos]_vars

(***************************************************************************)
(* Claims settled under SpecPos.                                           *)
(***************************************************************************)
\* the row of key k, or the zero row when the key has no position
HeldRow(k) ==
    IF k \in DOMAIN positions THEN positions[k]
    ELSE [amount |-> Zero, averageEntryPrice |-> Zero, realizedPnl |-> Zero]

\* C6: the position write of a BUY of amount a at price p on a position
\* (amount q, average v; q = 0 without a position) leaves amount q + a,
\* averageEntryPrice (q*v + a*p) / (q + a) and realizedPnl as it was.
C6_BuyAverageCost ==
    [][\A c \in Procs :
            (/\ calls[c].pc = "writePosition" /\ calls'[c].pc = "done"
             /\ calls[c].data.side = "BUY")
            => LET d == calls[c].data
                   k == PosKey(d)
                   q == HeldRow(k).amount
                   v == HeldRow(k).averageEntryPrice
               IN  /\ k \in DOMAIN positions'
                   /\ positions'[k].amount = RAdd(q, d.amount)
                   /\ positions'[k].averageEntryPrice =
                        RDiv(RAdd(RMul(q, v), RMul(d.amount, d.price)), RAdd(q, d.amount))
                   /\ positions'[k].realizedPnl = HeldRow(k).realizedPnl]_vars

\* BUY 10 @ 1 then BUY 10 @ 2: amount 20, average 1.5
C6_Witness ==
    \E k \in DOMAIN positions :
        /\ positions[k] = [amount |-> Num(20), averageEntryPrice |-> Rat(3, 2),
                           realizedPnl |-> Zero]
        /\ {<<t.side, t.amount, t.price>> : t \in RowsOfKey(k)} =
                {<<"BUY", Num(10), Num(1)>>, <<"BUY", Num(10), Num(2)>>}
        /\ \E c \in Procs : calls[c].pc = "done" /\ calls[c].data.price = Num(2)

\* C7: the position write of a SELL of amount a at price p on a position
\* (q, v, r) leaves amount max(0, q - a), realizedPnl r + a*(p - v) and
\* averageEntryPrice v; no step of a SELL on a key without a position creates
\* or changes a Position row.
C7_SellRealizedPnl ==
    [][\A c \in Procs :
            LET d == calls[c].data
                k == PosKey(d)
            IN  /\ (/\ calls[c].pc = "writePosition" /\ calls'[c].pc = "done"
                    /\ d.side = "SELL")
                    => /\ positions'[k].amount =
                            (IF RLt(positions[k].amount, d.amount) THEN Zero
                             ELSE RSub(positions[k].amount, d.amount))
                       /\ positions'[k].realizedPnl =
                            RAdd(positions[k].realizedPnl,
                                 RMul(d.amount,
                                      RSub(d.price, positions[k].averageEntryPrice)))
                       /\ positions'[k].averageEntryPrice = positions[k].averageEntryPrice
                /\ (~Ended(c) /\ d.side = "SELL" /\ k \notin DOMAIN positions)
                    => positions' = positions]_vars

\* a SELL on no position left none, then BUY 10 @ 1 and SELL 4 @ 2 left
\* amount 6, average 1, realizedPnl 4
C7_Witness ==
    \E k \in DOMAIN positions :
        /\ positions[k] = [amount |-> Num(6), averageEntryPrice |-> Num(1),
                           realizedPnl |-> Num(4)]
        /\ \E t1, t2, t3 \in RowsOfKey(k) :
            /\ t1.signature < t2.signature /\ t2.signature < t3.signature
            /\ t1.side = "SELL"
            /\ t2.side = "BUY" /\ t2.amount = Num(10) /\ t2.price = Num(1)
            /\ t3.side = "SELL" /\ t3.amount = Num(4) /\ t3.price = Num(2)

\* C8: on a key whose other Trade rows are all BUYs, the position write of a
\* SELL of the total bought amount at the position's averageEntryPrice
\* leaves realizedPnl as it was and amount 0.
C8_Conservation ==
    [][\A c \in Procs :
            LET d == calls[c].data
                k == PosKey(d)
                others == {t \in RowsOfKey(k) : t.signature # d.signature}
            IN  (/\ calls[c].pc = "writePosition" /\ calls'[c].pc = "done"
                 /\ d.side = "SELL"
                 /\ \A t \in others : t.side = "BUY"
                 /\ d.amount = SumAmounts(others)
                 /\ d.price = positions[k].averageEntryPrice)
                => /\ positions'[k].realizedPnl = positions[k].realizedPnl
                   /\ positions'[k].amount = Zero]_vars

\* BUY 10 @ 1, BUY 10 @ 2, then SELL 20 @ 1.5: amount 0, realizedPnl 0
C8_Witness ==
    \E c \in Procs :
        LET d == calls[c].data
            k == PosKey(d)
        IN  /\ calls[c].pc = "done" /\ calls[c].posDone /\ d.side = "SELL"
            /\ d.price = Rat(3, 2) /\ d.amount = Num(20)
            /\ Cardinality({t \in RowsOfKey(k) : t.side = "BUY"}) = 2
            /\ k \in DOMAIN positions
            /\ positions[k] = [amount |-> Zero, averageEntryPrice |-> Rat(3, 2),
                               realizedPnl |-> Zero]

(***************************************************************************)
(* SpecIndex: recordTrade calls and indexTransactionForWallet calls, their *)
(* steps interleaved, over a chain of transactions with up to two token    *)
(* transfers each.                                                         *)
(***************************************************************************)
Transfer(from, to, mint, amount) ==
    [fromWallet |-> from, toWallet |-> to, tokenMint |-> mint, amount |-> Num(amount)]

TxShapes ==
    {<<Transfer("w2", "w1", "y1", 4), Transfer("w1", "w2", "n1", 10)>>,
     <<Transfer("w2", "w1", "y2", 4), Transfer("w1", "w2", "y1", 10)>>,
     <<Transfer("w2", "w2", "n1", 4)>>}

InitIndex ==
    /\ markets = InitMarkets
    /\ users = <<>>
    /\ positions = <<>>
    /\ trades = {}
    /\ clockDay = 0
    /\ calls = [p \in Procs |-> IdleCall]
    /\ chain \in [Signatures -> TxShapes]
    /\ balances = <<>>
    /\ idx = IdleIndex
    /\ handlers = [h \in Slots |-> FreeHandler]
    /\ sync = IdleSync
    /\ indexerState = <<>>
    /\ lst = Subscribed
    /\ rpc = IdleRpc
    /\ fee = IdleFee
    /\ revenue = <<>>
    /\ quote = IdleQuote
    /\ pointsBalance = <<>>
    /\ pointsLedger = <<>>
    /\ faucet = [p \in Procs |-> IdleFaucet]

IndexInputs ==
    {[walletAddress |-> "w1", marketId |-> "m1", tokenMint |-> "y1", side |-> "BUY",
      price |-> Num(1), amount |-> Num(4), signature |-> g] : g \in Signatures}

NextIndex ==
    \/ \E d \in IndexInputs : RecordTradeBegin("c1", d)
    \/ RecordTradeStep("c1")
    \/ \E w \in Wallets : IndexBegin(w)
    \/ IndexStep

SpecIndex == InitIndex /\ [][NextIndex]_vars

\* C3: no two Trade rows share a signature, and a Trade row once written is
\* in the table unchanged after every later step.
C3_SignatureUnique ==
    /\ [](\A t1, t2 \in trades : t1.signature = t2.signature => t1 = t2)
    /\ [][\A t \in trades : t \in trades']_vars

\* a wallet was indexed over a transaction with two matching transfers, which
\* left one row (of the first transfer), beside a row recordTrade wrote
C3_Witness ==
    /\ idx.pc = "done"
    /\ \E t \in trades :
        /\ t.price = Zero /\ t.tokenMint = "y1"
        /\ Len(chain[t.signature]) = 2
        /\ chain[t.signature][2].tokenMint = "n1"
    /\ \E t \in trades : t.price = Num(1)

(***************************************************************************)
(* SpecAmount: the three writers of Position.amount on one wallet, their   *)
(* steps interleaved: recordTrade (BUY and SELL, calls one after the       *)
(* other), the account-change handler and syncWalletPositions.             *)
(***************************************************************************)
RawAmounts == {0, 5000000}

\* BUY 4 @ 1 and SELL 10 @ 1
AmountInputs ==
    {[walletAddress |-> "w1", marketId |-> "m1", tokenMint |-> "y1", side |-> s,
      price |-> Num(1), amount |-> IF s = "BUY" THEN Num(4) ELSE Num(10),
      signature |-> g] :
        s \in {"BUY", "SELL"}, g \in NewSignatures(Signatures)}

NextAmount ==
    \/ \E d \in AmountInputs : RecordTradeBegin("c1", d)
    \/ RecordTradeStep("c1")
    \/ \E raw \in RawAmounts : AccountChange(1, "w1", "y1", raw)
    \/ HandlerStep(1)
    \/ SyncBegin("w1")
    \/ SyncStep

SpecAmount == Init /\ [][NextAmount]_vars

\* C9: every Position has amount >= 0.
C9_AmountNonNegative == \A k \in DOMAIN positions : RLe(Zero, positions[k].amount)

\* a SELL of 10 on a position holding 4 has been applied, and the position
\* holds 0
C9_Witness ==
    \E c \in Procs :
        /\ calls[c].pc = "done" /\ calls[c].posDone
        /\ calls[c].data.side = "SELL" /\ calls[c].data.amount = Num(10)
        /\ \E t \in RowsOfKey(PosKey(calls[c].data)) : t.side = "BUY" /\ t.amount = Num(4)
        /\ PosKey(calls[c].data) \in DOMAIN positions
        /\ positions[PosKey(calls[c].data)].amount = Zero
        /\ sync.pc = "done" /\ <<"w1", "y1">> \in DOMAIN balances

(***************************************************************************)
(* SpecListener: account-change notifications arriving at any time while   *)
(* earlier ones are still being handled.                                   *)
(***************************************************************************)
LowestFreeSlot(h) == handlers[h].pc = "free" /\ \A g \in Slots : g < h => handlers[g].pc # "free"

NextListener ==
    \/ \E h \in Slots, m \in {"y1", "y2"}, raw \in RawAmounts :
            LowestFreeSlot(h) /\ AccountChange(h, "w1", m, raw)
    \/ \E h \in Slots : HandlerStep(h)

SpecListener == Init /\ [][NextListener]_vars

\* the notifications of a mint of an active market that arrived and whose
\* handling has not ended
PendingTracked == {h \in InFlight : FindActiveMarket(handlers[h].mint) # {}}

\* C10: the number of pending notifications of tracked mints never exceeds
\* the capacity of the live queue (a notification arriving at capacity is
\* dropped).
C10_QueueBounded == Cardinality(PendingTracked) <= QueueCapacity

(***************************************************************************)
(* SpecCatch: notifications of the account (w1, y1), at most two being     *)
(* handled at a time, where any awaited call may reject.                   *)
(***************************************************************************)
NextCatch ==
    \/ \E h \in {1, 2}, raw \in RawAmounts :
            LowestFreeSlot(h) /\ AccountChange(h, "w1", "y1", raw)
    \/ \E h \in {1, 2} : HandlerStep(h)

SpecCatch == Init /\ [][NextCatch]_vars

\* C15: an error raised by an awaited call of a handler ends in the catch of
\* that handler: no call ever ends rejected, the step into the catch and the
\* step out of it change no row and no other handler, and after the catch
\* the call has returned (the notification is not handled again).
C15_ErrorCaught ==
    /\ [](\A h \in Slots : handlers[h].pc # "rejected")
    /\ [][\A h \in Slots :
            /\ (handlers[h].pc # "caught" /\ handlers'[h].pc = "caught")
                    => /\ UNCHANGED <<users, positions, trades>>
                       /\ \A g \in Slots \ {h} : handlers'[g] = handlers[g]
            /\ (handlers[h].pc = "caught" /\ handlers'[h] # handlers[h])
                    => /\ handlers'[h] = FreeHandler
                       /\ UNCHANGED <<users, positions, trades>>
                       /\ \A g \in Slots \ {h} : handlers'[g] = handlers[g]
       ]_vars

\* the handler of a notification carrying 0 is in its catch, and the handler
\* of a later notification of the same account (carrying 5000000, the
\* balance now on chain) has reached its position.upsert
C15_Witness ==
    /\ handlers[2].pc = "caught" /\ handlers[2].mint = "y1" /\ handlers[2].amount = 0
    /\ handlers[1].pc = "upsertPosition" /\ handlers[1].mint = "y1"
    /\ handlers[1].amount = 5000000
    /\ balances[<<"w1", "y1">>] = 5000000

\* C11: at most one notification is being handled at any time: a handling
\* never begins while an earlier one has started and not yet finished.
C11_OneAtATime == Cardinality(InFlight) <= 1

(***************************************************************************)
(* SpecOrder: notifications of one token account (w1, y1) arriving at any  *)
(* time, every awaited call of their handlers succeeding.                   *)
(***************************************************************************)
NextOrder ==
    \/ \E h \in Slots, raw \in RawAmounts :
            LowestFreeSlot(h) /\ AccountChange(h, "w1", "y1", raw)
    \/ \E h \in Slots : HandlerFindMarket(h)
    \/ \E h \in Slots : HandlerUpsertUser(h)
    \/ \E h \in Slots : HandlerGetMintInfo(h)
    \/ \E h \in Slots : HandlerUpsertPosition(h)

SpecOrder == Init /\ [][NextOrder]_vars

\* C12: once every notification that arrived for (w1, m1, y1) has been
\* handled, Position.amount is the balance carried by the one that arrived
\* last (balances holds the balance of the latest notification).
C12_ArrivalOrder ==
    (InFlight = {} /\ <<"w1", "y1">> \in DOMAIN balances)
        => /\ <<"w1", "m1", "y1">> \in DOMAIN positions
           /\ positions[<<"w1", "m1", "y1">>].amount
                = UiAmount(balances[<<"w1", "y1">>], MintDecimals("y1"))

(***************************************************************************)
(* SpecDrop: notifications for mints of an active market (y1), of a market *)
(* that is not active (y2) and of no market (x1), while the market sync    *)
(* closes and reopens the market of y1.                                    *)
(***************************************************************************)
DropMints == {"y1", "y2", "x1"}

NextDrop ==
    \/ \E h \in Slots, m \in DropMints :
            LowestFreeSlot(h) /\ AccountChange(h, "w1", m, 5000000)
    \/ \E h \in Slots : HandlerStep(h)
    \/ \E status \in {"active", "closed"} : UpsertMarketStatus("m1", status)

SpecDrop == Init /\ [][NextDrop]_vars

\* the markets that own the mint and are active now
ActiveOwners(mint) ==
    {i \in DOMAIN markets :
        /\ markets[i].status = "active"
        /\ mint \in {markets[i].yesTokenMint, markets[i].noTokenMint}}

\* C13: when the market lookup of a handler finds no active market for the
\* mint, the handler ends there and no User or Position row is written (so
\* no mint metadata is fetched); a handler goes on only with a market that
\* owns the mint and is active at the lookup, and the position it writes is
\* the one of that owner, market and mint.
C13_DropUntracked ==
    [][\A h \in Slots :
        /\ (/\ handlers[h].pc = "findMarket"
            /\ handlers'[h] # handlers[h]
            /\ handlers'[h].pc # "caught"
            /\ ActiveOwners(handlers[h].mint) = {})
                => /\ handlers'[h] = FreeHandler
                   /\ UNCHANGED <<users, positions>>
        /\ (handlers[h].pc = "findMarket" /\ handlers'[h].pc = "upsertUser")
                => handlers'[h].marketId \in ActiveOwners(handlers[h].mint)
        /\ (handlers'[h].pc \in {"getMintInfo", "upsertPosition"})
                => handlers[h].pc \in {"upsertUser", "getMintInfo", "upsertPosition"}
        /\ (handlers[h].pc = "upsertPosition" /\ handlers'[h].pc = "free")
                => \A k \in DOMAIN positions' :
                        (k \notin DOMAIN positions \/ positions'[k] # positions[k])
                            => k = <<handlers[h].owner, handlers[h].marketId, handlers[h].mint>>
      ]_vars

\* a notification for y2, whose market m2 was never active, has been handled
\* and left no row, and one for y1 has been handled and left its position
C13_Witness ==
    /\ InFlight = {}
    /\ <<"w1", "y2">> \in DOMAIN balances
    /\ <<"w1", "x1">> \in DOMAIN balances
    /\ DOMAIN positions = {<<"w1", "m1", "y1">>}

(***************************************************************************)
(* SpecScale: notifications for the two mints of the active market, y1     *)
(* with 6 decimals and n1 with 0 decimals, handled one at a time, and      *)
(* recordTrade calls on the y1 position.                                    *)
(***************************************************************************)
NextScale ==
    \/ \E d \in AmountInputs : RecordTradeBegin("c1", d)
    \/ RecordTradeStep("c1")
    \/ \E m \in {"y1", "n1"}, raw \in RawAmounts : AccountChange(1, "w1", m, raw)
    \/ HandlerStep(1)

SpecScale == Init /\ [][NextScale]_vars

\* C14: the position.upsert of a handler sets amount to the observed raw
\* balance divided by 10 to the decimals of the mint, whatever the amount
\* was; an existing row keeps averageEntryPrice and realizedPnl, a new row
\* has averageEntryPrice 0.
C14_Overwrite ==
    [][\A h \in Slots :
        (handlers[h].pc = "upsertPosition" /\ handlers'[h].pc = "free")
            => LET k == <<handlers[h].owner, handlers[h].marketId, handlers[h].mint>>
               IN  /\ k \in DOMAIN positions'
                   /\ positions'[k].amount
                        = UiAmount(handlers[h].amount, MintDecimals(handlers[h].mint))
                   /\ k \in DOMAIN positions
                        => /\ positions'[k].averageEntryPrice = positions[k].averageEntryPrice
                           /\ positions'[k].realizedPnl = positions[k].realizedPnl
                   /\ k \notin DOMAIN positions
                        => positions'[k].averageEntryPrice = Zero
      ]_vars

(***************************************************************************)
(* SpecStart: a process boots with the listener stopped, start() runs the  *)
(* backfill over a chain of NSigs transactions and subscribes; the         *)
(* notifications of the account (w1, y1) are delivered once the            *)
(* subscription is registered; the process may be restarted at any time.   *)
(***************************************************************************)
BackfillTxShapes ==
    {<<Transfer("w2", "w1", "y1", 4)>>,
     <<Transfer("w2", "w1", "n1", 4)>>,
     <<Transfer("w2", "w1", "y2", 4)>>}

InitStart ==
    /\ markets = InitMarkets
    /\ users = <<>>
    /\ positions = <<>>
    /\ trades = {}
    /\ clockDay = 0
    /\ calls = [p \in Procs |-> IdleCall]
    /\ chain \in [Signatures -> BackfillTxShapes]
    /\ balances = <<>>
    /\ idx = IdleIndex
    /\ handlers = [h \in Slots |-> FreeHandler]
    /\ sync = IdleSync
    /\ indexerState = <<>>
    /\ lst = StoppedListener
    /\ rpc = IdleRpc
    /\ fee = IdleFee
    /\ revenue = <<>>
    /\ quote = IdleQuote
    /\ pointsBalance = <<>>
    /\ pointsLedger = <<>>
    /\ faucet = [p \in Procs |-> IdleFaucet]

\* the callback passed to onProgramAccountChange is called only once the
\* subscription is registered
Notification(h, owner, mint, raw) ==
    /\ lst.subscribed
    /\ AccountChange(h, owner, mint, raw)

NextStart ==
    \/ ListenerStart
    \/ ListenerStep
    \/ ProcessRestart
    \/ \E raw \in RawAmounts : Notification(1, "w1", "y1", raw)
    \/ HandlerStep(1)

SpecStart == InitStart /\ [][NextStart]_vars

\* C16: whenever the subscription is registered, indexTransactionsForMint
\* has run and returned for every mint of every active market and no
\* backfill work is left; a notification is being handled only while the
\* subscription is registered.
C16_BackfillBeforeSubscribe ==
    /\ lst.subscribed
            => /\ ActiveMints(markets) \subseteq lst.backfilled
               /\ lst.mints = <<>> /\ lst.signatures = <<>>
               /\ lst.pc = "started"
    /\ InFlight # {} => lst.subscribed
    /\ lst.pc \in {"upsertState", "findMarkets", "history", "parse", "updateState"}
            => InFlight = {}

\* the backfill visited a signature, the subscription was then registered,
\* and a notification is being handled
C16_Witness ==
    /\ lst.subscribed
    /\ lst.visited # {}
    /\ lst.backfilled = {"y1", "n1"}
    /\ handlers[1].pc = "upsertPosition"

\* C17: the checkpoint is written to a signature only when the transaction
\* of that signature was fetched (and its transfers parsed).
C17_CheckpointAfterProcessing == lst.pc = "updateState" => lst.fetched

\* C19: lastSignature is never replaced by a signature older than the one it
\* holds.
C19_CheckpointMonotone == [][Checkpoint' >= Checkpoint]_vars

(***************************************************************************)
(* SpecLong: the backfill over a long history.  The chain starts with one  *)
(* transaction of y1; while no process runs, the chain advances to         *)
(* LongChainLen transactions of y1, more than one history fetch returns.   *)
(***************************************************************************)
LongChainLen == HistoryLimit + 2

InitLong ==
    /\ markets = InitMarkets
    /\ users = <<>>
    /\ positions = <<>>
    /\ trades = {}
    /\ clockDay = 0
    /\ calls = [p \in Procs |-> IdleCall]
    /\ chain = [g \in {1} |-> <<Transfer("w2", "w1", "y1", 4)>>]
    /\ balances = <<>>
    /\ idx = IdleIndex
    /\ handlers = [h \in Slots |-> FreeHandler]
    /\ sync = IdleSync
    /\ indexerState = <<>>
    /\ lst = StoppedListener
    /\ rpc = IdleRpc
    /\ fee = IdleFee
    /\ revenue = <<>>
    /\ quote = IdleQuote
    /\ pointsBalance = <<>>
    /\ pointsLedger = <<>>
    /\ faucet = [p \in Procs |-> IdleFaucet]

\* transactions confirmed on chain while the process is down
ChainAdvance ==
    /\ lst.pc = "stopped"
    /\ ChainTip < LongChainLen
    /\ chain' = [g \in 1..LongChainLen |->
                    IF g \in DOMAIN chain THEN chain[g]
                    ELSE <<Transfer("w2", "w1", "y1", 4)>>]
    /\ UNCHANGED <<markets, users, positions, trades, clockDay, calls, balances, idx,
                   handlers, sync, indexerState, lst, jobVars>>

NextLong ==
    \/ ListenerStart
    \/ ListenerStep
    \/ ProcessRestart
    \/ ChainAdvance

SpecLong == InitLong /\ [][NextLong]_vars

\* the signatures after g in chain order whose transaction involves a mint of
\* an active market
TrackedAfter(g) ==
    {x \in DOMAIN chain :
        x > g /\ \E m \in ActiveMints(markets) : InvolvesMint(chain[x], m)}

BackfillFinished == lst.pc \in {"subscribe", "started"} /\ ~lst.fetchError

\* C18: a start that finds the checkpoint at a signature S (left by a process
\* that stopped after advancing it to S) and finishes its backfill without a
\* fetch error has not visited S and has visited every later signature of
\* the tracked mints.
C18_ResumeAfterCheckpoint ==
    (BackfillFinished /\ lst.lastSignature # NullSignature)
        => /\ lst.lastSignature \notin lst.visited
           /\ TrackedAfter(lst.lastSignature) \subseteq lst.visited

\* C20: when the backfill of a start has finished without a fetch error,
\* every signature after the checkpoint read at startup whose transaction
\* involves a mint of an active market has been visited.
C20_NothingMissed ==
    BackfillFinished => \A g \in TrackedAfter(lst.lastSignature) : g \in lst.visited

\* C21: when the backfill has fetched the transaction of a signature and one
\* of its transfers is of the mint being backfilled, the Position of the
\* receiving wallet for that market and mint exists afterwards.
C21_BackfillApplies ==
    [][(lst.pc = "parse" /\ lst'.pc = "updateState" /\ lst'.fetched)
        => \A i \in DOMAIN chain[Head(lst.signatures)] :
            LET transfer == chain[Head(lst.signatures)][i]
            IN  transfer.tokenMint = Head(lst.mints)
                    => \E k \in DOMAIN positions' :
                            k[1] = transfer.toWallet /\ k[3] = transfer.tokenMint
      ]_vars

\* C22: from any point of the backfill, a step of start() (a failed call
\* included) stays in the pass of the current mint or goes on to the next
\* mint, or to subscribing after the last one; it never makes start() fail
\* and never takes back the checkpoint; when start() comes to subscribing,
\* the pass of every mint of every active market has run.
C22_MintFailureIsolated ==
    /\ [](lst.pc \in {"subscribe", "started"} => ActiveMints(markets) \subseteq lst.backfilled)
    /\ [][(lst.pc \in {"history", "parse", "updateState"} /\ lst'.pc # "stopped")
            => /\ lst'.pc \in {"history", "parse", "updateState", "subscribe"}
               /\ \/ lst'.mints = lst.mints
                  \/ /\ lst'.mints = Tail(lst.mints)
                     /\ lst'.pc = IF Tail(lst.mints) = <<>> THEN "subscribe" ELSE "history"
               /\ \/ indexerState' = indexerState
                  \/ /\ lst.pc = "updateState"
                     /\ Checkpoint' = Head(lst.signatures)
       ]_vars

\* on a chain with signature 1 of y1 and signature 2 of n1 and no checkpoint
\* at startup, the pass of y1 failed (signature 1 was not visited), the pass
\* of n1 then advanced the checkpoint to 2, and the subscription is registered
C22_Witness ==
    /\ InvolvesMint(chain[1], "y1") /\ InvolvesMint(chain[2], "n1")
    /\ lst.pc = "started" /\ lst.subscribed
    /\ lst.lastSignature = NullSignature
    /\ lst.visited = {2}
    /\ Checkpoint = 2

(***************************************************************************)
(* SpecRetry: withRetry calls, one after the other, on every sequence of   *)
(* outcomes of the wrapped call.                                           *)
(***************************************************************************)
NextRetry ==
    \/ \E outcomes \in [1..MAX_RETRIES + 1 -> {"ok"} \cup RpcErrors] : RpcBegin(outcomes)
    \/ RpcCall
    \/ RpcWake

SpecRetry == Init /\ [][NextRetry]_vars

\* C23: withRetry calls fn at most 3 times; it returns at the first call
\* that succeeds; it has waited 1000 ms after the first failure and 2000 ms
\* after the second, and nothing after a success or after the third failure;
\* after the third failure it throws the error of that call.
C23_BoundedRetry ==
    /\ rpc.attempts <= 3
    /\ \A k \in 1..rpc.attempts : k < rpc.attempts => rpc.outcomes[k] # "ok"
    /\ rpc.pc = "returned"
            => /\ rpc.outcomes[rpc.attempts] = "ok"
               /\ rpc.delays = SubSeq(<<1000, 2000>>, 1, rpc.attempts - 1)
    /\ rpc.pc = "thrown"
            => /\ rpc.attempts = 3
               /\ rpc.outcomes[3] # "ok"
               /\ rpc.lastError = rpc.outcomes[3]
               /\ rpc.delays = <<1000, 2000>>
    /\ rpc.pc = "sleep"
            => /\ rpc.attempts < 3
               /\ rpc.delays = SubSeq(<<1000, 2000>>, 1, rpc.attempts)
    /\ rpc.pc = "call" => rpc.delays = SubSeq(<<1000, 2000>>, 1, rpc.attempts)

\* three calls failed with e1, e1, e2: withRetry has thrown e2
C23_Witness ==
    /\ rpc.pc = "thrown"
    /\ rpc.attempts = 3
    /\ rpc.lastError = "e2"
    /\ rpc.outcomes[1] = "e1"

(***************************************************************************)
(* SpecFee: the first reconciliation run of a process, on a table of       *)
(* trades with three (market, tokenMint) groups whose fee totals are 0,    *)
(* null, 100 or 101, and a treasury whose balance of a mint is absent, 0,  *)
(* 98, 99.5 or 100.                                                        *)
(***************************************************************************)
FeeGroup(marketId, tokenMint, sum) ==
    [marketId |-> marketId, tokenMint |-> tokenMint, sum |-> sum]

FeeGroupInputs ==
    {<<FeeGroup("m1", "y1", e1), FeeGroup("m1", "n1", e2), FeeGroup("m2", "y2", Num(100))>> :
        e1 \in {Zero, Num(100), Num(101)}, e2 \in {NullFee, Num(100)}}

TreasuryBalances == {NoBalance, Zero, Num(98), Rat(199, 2), Num(100)}

NextFee ==
    \/ \E treasury \in BOOLEAN, webhook \in BOOLEAN :
            fee.run = 0 /\ FeeBegin(treasury, webhook)
    \/ \E groups \in FeeGroupInputs : FeeGroupBy(groups)
    \/ \E balanceInfo \in TreasuryBalances : FeeGetBalance(balanceInfo)
    \/ FeeCreateRevenue
    \/ \E outcome \in {"skipped", "delivered", "failed"} : FeeSendAlert(outcome)
    \/ \E outcome \in {"skipped", "delivered", "failed"} : FeeThrow(outcome)

SpecFee == Init /\ [][NextFee]_vars

\* the alerts of the groups a run has reconciled, in order
RECURSIVE AlertsOf(_)
AlertsOf(handled) ==
    IF handled = <<>> THEN <<>>
    ELSE IF Head(handled).alert = NoAlert THEN AlertsOf(Tail(handled))
    ELSE <<Head(handled).alert>> \o AlertsOf(Tail(handled))

\* C24: for a group with nonzero expected total e and treasury balance a,
\* the run raises the 'missing treasury' alert exactly when e > 0 and a is
\* zero or absent, the 'ledger mismatch' alert exactly when a > 0 and
\* |e - a| / a > 0.01 (100 |e - a| > a), no alert otherwise; the alerts a
\* completed run sent are those of its groups, in order.
C24_AlertPerGroup ==
    /\ \A k \in DOMAIN fee.handled :
        LET h == fee.handled[k]
            e == h.expected
            absent == h.balanceInfo = NoBalance
            a == IF absent THEN Zero ELSE h.balanceInfo
            missing == RLt(Zero, e) /\ (absent \/ a = Zero)
            mismatch == /\ ~absent
                        /\ RLt(Zero, a)
                        /\ \/ RLt(a, RMul(Num(100), RSub(e, a)))
                           \/ RLt(a, RMul(Num(100), RSub(a, e)))
        IN  /\ e # Zero
            /\ h.alert = MissingTreasury <=> missing
            /\ h.alert = LedgerMismatch <=> mismatch
            /\ h.alert = NoAlert <=> ~missing /\ ~mismatch
    /\ fee.pc = "done" =>
            [k \in DOMAIN fee.alerts |-> fee.alerts[k].title] = AlertsOf(fee.handled)

\* a completed run over three groups expecting 100 each, with the balances
\* absent, 98 and 99.5: missing treasury, ledger mismatch, no alert
C24_Witness ==
    /\ fee.pc = "done"
    /\ Len(fee.handled) = 3
    /\ \A k \in 1..3 : fee.handled[k].expected = Num(100)
    /\ fee.handled[1].balanceInfo = NoBalance /\ fee.handled[1].alert = MissingTreasury
    /\ fee.handled[2].balanceInfo = Num(98) /\ fee.handled[2].alert = LedgerMismatch
    /\ fee.handled[3].balanceInfo = Rat(199, 2) /\ fee.handled[3].alert = NoAlert

\* C25: a run without a configured treasury address has ended at once,
\* without an error: it aggregated no trades, fetched no balance, created
\* no Revenue record and raised no alert.
C25_SkippedWithoutTreasury ==
    (fee.pc # "idle" /\ ~fee.treasury)
        => /\ fee.pc = "done"
           /\ ~fee.grouped
           /\ fee.fetches = 0
           /\ Len(revenue) = fee.startLen
           /\ fee.alerts = <<>>
           /\ fee.handled = <<>>

\* a run without a treasury address has ended
C25_Witness ==
    /\ fee.run = 1
    /\ ~fee.treasury
    /\ fee.pc = "done"

\* C27: the step that sends an alert of a group never ends the run with an
\* error, whatever the delivery does: the run goes on to the next group or
\* completes, and the Revenue table is as before.
C27_AlertNeverPropagates ==
    [][fee.pc = "alert" => /\ fee'.pc \in {"balance", "done"}
                           /\ Len(fee'.alerts) = Len(fee.alerts) + 1
                           /\ revenue' = revenue]_vars

\* the delivery of the alert of the first group failed; the run went on to
\* the second group and completed
C27_Witness ==
    /\ fee.pc = "done"
    /\ Len(fee.handled) >= 2
    /\ fee.handled[1].alert # NoAlert
    /\ fee.alerts[1].outcome = "failed"

(***************************************************************************)
(* SpecRevenue: reconciliation runs one after the other on a growing       *)
(* ProtocolRevenue table; two groups, balances 0 or 100.                   *)
(***************************************************************************)
RevenueGroupInputs ==
    {<<FeeGroup("m1", "y1", e1), FeeGroup("m1", "n1", Num(100))>> : e1 \in {Zero, Num(100)}}

NextRevenue ==
    \/ \E treasury \in BOOLEAN : FeeBegin(treasury, FALSE)
    \/ \E groups \in RevenueGroupInputs : FeeGroupBy(groups)
    \/ \E balanceInfo \in {Zero, Num(100)} : FeeGetBalance(balanceInfo)
    \/ FeeCreateRevenue
    \/ FeeSendAlert("skipped")
    \/ FeeThrow("skipped")

SpecRevenue == Init /\ [][NextRevenue]_vars

\* the Revenue rows of the groups with a nonzero expected amount, in order
RECURSIVE ExpectedRows(_)
ExpectedRows(groups) ==
    IF groups = <<>> THEN <<>>
    ELSE IF Head(groups).sum \in {Zero, NullFee} THEN ExpectedRows(Tail(groups))
    ELSE <<[marketId |-> Head(groups).marketId, assetMint |-> Head(groups).tokenMint,
            amount |-> Head(groups).sum]>> \o ExpectedRows(Tail(groups))

C28_EmitFailureHarmless ==
    \A p \in Procs :
        (calls[p].emitFailed /\ Ended(p))
            => /\ calls[p].pc = "done"
               /\ calls[p].streakDone
               /\ calls[p].tradeDone
               /\ calls[p].posDone
               /\ calls[p].result = {TradeRow(calls[p].data)}

(***************************************************************************)
(* SpecStop: SpecStart with the shutdown: stop() after start() returned.   *)
(***************************************************************************)
NextStop ==
    \/ NextStart
    \/ ListenerStop
    \/ \E ok \in BOOLEAN : ListenerStopRemove(ok)

SpecStop == InitStart /\ [][NextStop]_vars

\* C29: stop() never rejects, and once it has returned every subscription
\* the listener registered has been asked to be removed, subscriptionIds is
\* empty and isRunning is false.
C29_StopRemovesAll ==
    /\ lst.stopPc \in {"idle", "removing", "returned"}
    /\ lst.stopPc = "returned"
            => /\ lst.registered \subseteq lst.asked
               /\ lst.subscriptionIds = <<>>
               /\ ~lst.isRunning

\* stop() has returned although the removal of the subscription failed
C29_Witness ==
    /\ lst.stopPc = "returned"
    /\ lst.removeFailed
    /\ lst.registered = {SubId}
    /\ lst.asked = {SubId}

(***************************************************************************)
(* SpecReindex: indexTransactionForWallet calls, one after the other, for  *)
(* either wallet, on every chain of SpecIndex.                             *)
(***************************************************************************)
NextReindex ==
    \/ \E w \in Wallets : IndexBeginRecorded(w)
    \/ IndexStep

SpecReindex == InitIndex /\ [][NextReindex]_vars

\* the rows a step of the call may insert for signature g: one row per
\* transfer of the transaction whose mint belongs to an active market and
\* which involves the queried wallet w
RowsFor(w, g) ==
    {[signature |-> g, walletAddress |-> w, marketId |-> ki[2],
      tokenMint |-> chain[g][ki[1]].tokenMint,
      side |-> IF chain[g][ki[1]].toWallet = w THEN "BUY" ELSE "SELL",
      price |-> Zero, amount |-> chain[g][ki[1]].amount] :
        ki \in {x \in (DOMAIN chain[g]) \X (DOMAIN markets) :
                    /\ chain[g][x[1]].toWallet = w \/ chain[g][x[1]].fromWallet = w
                    /\ markets[x[2]].status = "active"
                    /\ chain[g][x[1]].tokenMint \in {markets[x[2]].yesTokenMint,
                                                      markets[x[2]].noTokenMint}}}

QuoteWallets == {NoWallet, SolanaWallet, EthWallet, EthShapedWallet, OtherWallet}
QuoteMarketIds == {"", "m1", "m2", "m9"}
QuoteSides == {"", "YES", "NO", "MAYBE"}
QuoteAmounts ==
    {NoAmount, NumberAmount(0), NumberAmount(0 - 5), NumberAmount(10), NumericAmount(5),
     TextAmount}

NextQuote ==
    \/ \E wallet \in QuoteWallets, marketId \in QuoteMarketIds, side \in QuoteSides,
          amount \in QuoteAmounts : QuoteRequest(wallet, marketId, side, amount)
    \/ QuoteFindMarket
    \/ \E outcome \in {"quote", "unreachable", "invalid"} : QuoteAggregator(outcome)
    \/ QuoteThrow

SpecQuote == Init /\ [][NextQuote]_vars

\* what is wrong with the request in flight
AmountDefect == quote.amount.kind \in {"missing", "text"} \/ quote.amount.n <= 0
SideDefect == quote.side \notin {"YES", "NO"}
WalletDefect == quote.wallet \notin {SolanaWallet, EthWallet}
MarketMissing == quote.marketId \notin DOMAIN markets
MarketInactive == ~MarketMissing /\ markets[quote.marketId].status # "active"
QuoteDefects ==
    {d \in {"amount", "side", "wallet", "missing", "inactive"} :
        \/ d = "amount" /\ AmountDefect
        \/ d = "side" /\ SideDefect
        \/ d = "wallet" /\ WalletDefect
        \/ d = "missing" /\ MarketMissing
        \/ d = "inactive" /\ MarketInactive}

\* C31: a request with a missing or non-positive amount, a side other than
\* YES and NO, an invalid wallet, an unknown market or an inactive market
\* never reaches the aggregator and is answered with an error; when it is
\* the only defect the answer is 400 'amount must be a positive number', 400,
\* 400 'Invalid wallet address', 404 and 400 respectively; a 200 is sent only
\* for a request without a defect.
C31_QuoteValidation ==
    quote.pc # "idle" =>
        /\ QuoteDefects # {} => ~quote.requested
        /\ (quote.pc = "responded" /\ QuoteDefects # {}) => quote.status >= 400
        /\ (quote.pc = "responded" /\ quote.status = 200) => QuoteDefects = {}
        /\ quote.pc = "responded" =>
            /\ QuoteDefects = {"amount"}
                    => quote.status = 400 /\ quote.error = "amount must be a positive number"
            /\ QuoteDefects = {"side"} => quote.status = 400
            /\ (QuoteDefects = {"wallet"} /\ quote.wallet # NoWallet)
                    => quote.status = 400 /\ quote.error = "Invalid wallet address"
            /\ (QuoteDefects = {"missing"} /\ quote.marketId # "") => quote.status = 404
            /\ QuoteDefects = {"inactive"} => quote.status = 400

\* C32: a 200 answer carries the marketId and the side of the request, and
\* the yes mint of the market when the side is YES, its no mint when NO.
C32_QuoteEchoes ==
    (quote.pc = "responded" /\ quote.status = 200)
        => /\ quote.data.marketId = quote.marketId
           /\ quote.data.side = quote.side
           /\ quote.side = "YES" => quote.data.tokenMint = markets[quote.marketId].yesTokenMint
           /\ quote.side = "NO" => quote.data.tokenMint = markets[quote.marketId].noTokenMint
           /\ quote.side \in {"YES", "NO"}

\* a quote for the NO side of m1 was answered with the no mint n1
C32_Witness ==
    /\ quote.pc = "responded"
    /\ quote.status = 200
    /\ quote.marketId = "m1"
    /\ quote.side = "NO"
    /\ quote.data.tokenMint = "n1"

(***************************************************************************)
(* SpecRace: two recordTrade calls, c1 and c2, each made once, for BUY     *)
(* trades of wallet w1 in the mint y1 of m1, with the same or with         *)
(* distinct signatures; every database call succeeds unless a constraint   *)
(* of the table rejects it.                                                *)
(***************************************************************************)
RaceInputs ==
    {[walletAddress |-> "w1", marketId |-> "m1", tokenMint |-> "y1", side |-> "BUY",
      price |-> Num(x[2]), amount |-> Num(x[3]), signature |-> x[1]] :
        x \in {<<1, 1, 4>>, <<2, 2, 10>>}}

\* the awaited calls of recordTrade, none of them failing for an outside cause
RecordTradeRun(p) ==
    \/ RecordTradeFindTrade(p)
    \/ RecordTradeUpsertUser(p)
    \/ RecordTradeUpdateUser(p)
    \/ RecordTradeCreateTrade(p)
    \/ RecordTradeFindPosition(p)
    \/ RecordTradeWritePosition(p)

NextRace ==
    \/ \E p \in Procs, d \in RaceInputs : calls[p].pc = "idle" /\ RecordTradeBegin(p, d)
    \/ \E p \in Procs : RecordTradeRun(p)
    \/ Tick

SpecRace == Init /\ [][NextRace]_vars

BothEnded == \A p \in Procs : calls[p].pc \in {"done", "failed"}

\* C33: when two concurrent calls with the same signature have ended, the
\* signature has one Trade row, neither call ended in an error, and the
\* position holds the amount and the price of the trade once.
C33_ConcurrentDuplicate ==
    (BothEnded /\ calls["c1"].data = calls["c2"].data)
        => /\ Cardinality(trades) = 1
           /\ \A p \in Procs : calls[p].pc = "done"
           /\ positions[PosKey(calls["c1"].data)].amount = calls["c1"].data.amount
           /\ positions[PosKey(calls["c1"].data)].averageEntryPrice = calls["c1"].data.price

\* C34: when two concurrent BUY calls with distinct signatures on one
\* position key have returned, the position holds the sum of the two amounts
\* at the average price of the combined cost.
C34_NoLostUpdate ==
    (/\ \A p \in Procs : calls[p].pc = "done"
     /\ calls["c1"].data.signature # calls["c2"].data.signature)
        => LET d1 == calls["c1"].data
               d2 == calls["c2"].data
               total == RAdd(d1.amount, d2.amount)
               cost == RAdd(RMul(d1.amount, d1.price), RMul(d2.amount, d2.price))
           IN  /\ positions[PosKey(d1)].amount = total
               /\ positions[PosKey(d1)].averageEntryPrice = RDiv(cost, total)

(***************************************************************************)
(* SpecOverwrite: one recordTrade BUY call and one account-change          *)
(* notification on the same position key, each once, nothing failing.      *)
(***************************************************************************)
HandlerRun(h) ==
    \/ HandlerFindMarket(h)
    \/ HandlerUpsertUser(h)
    \/ HandlerGetMintInfo(h)
    \/ HandlerUpsertPosition(h)

NextOverwrite ==
    \/ \E d \in RaceInputs : calls["c1"].pc = "idle" /\ RecordTradeBegin("c1", d)
    \/ RecordTradeRun("c1")
    \/ \E raw \in RawAmounts :
            <<"w1", "y1">> \notin DOMAIN balances /\ AccountChange(1, "w1", "y1", raw)
    \/ HandlerRun(1)
    \/ Tick

SpecOverwrite == Init /\ [][NextOverwrite]_vars

\* C35: when the overwrite with the observed balance b and the BUY of amount
\* a have both ended, the position amount is b (trade first, overwrite
\* second) or b + a (overwrite first, trade second).
C35_OverwriteNotLost ==
    (/\ calls["c1"].pc = "done"
     /\ <<"w1", "y1">> \in DOMAIN balances
     /\ handlers[1].pc = "free")
        => LET b == UiAmount(balances[<<"w1", "y1">>], MintDecimals("y1"))
               a == calls["c1"].data.amount
           IN  positions[<<"w1", "m1", "y1">>].amount \in {b, RAdd(b, a)}

(***************************************************************************)
(* SpecSync: recordTrade calls and account-change notifications on wallet  *)
(* w1 first, then, with none of them in flight, one syncWalletPositions    *)
(* of w1 in which no awaited call rejects.                                 *)
(***************************************************************************)
NextSync ==
    \/ \E d \in AmountInputs : sync.pc = "idle" /\ RecordTradeBegin("c1", d)
    \/ sync.pc = "idle" /\ RecordTradeStep("c1")
    \/ \E raw \in RawAmounts : sync.pc = "idle" /\ AccountChange(1, "w1", "y1", raw)
    \/ sync.pc = "idle" /\ HandlerStep(1)
    \/ /\ sync.pc = "idle"
       /\ Ended("c1")
       /\ handlers[1].pc = "free"
       /\ SyncBegin("w1")
    \/ SyncFindMarkets
    \/ SyncGetBalances
    \/ SyncEntry

SpecSync == Init /\ [][NextSync]_vars

\* the balance of the owner's token account of the mint, 0 without an account
OnChainBalance(w, mint) ==
    IF <<w, mint>> \in DOMAIN balances
    THEN UiAmount(balances[<<w, mint>>], MintDecimals(mint))
    ELSE Zero

\* C38: after syncWalletPositions(w) has completed without an error, every
\* Position of w on a mint of an active market has the on-chain balance as
\* its amount, 0 when the balance is zero or the token account is missing.
C38_SyncMatchesChain ==
    sync.pc = "done"
        => \A k \in DOMAIN positions :
              (/\ k[1] = sync.walletAddress
               /\ k[2] \in DOMAIN markets
               /\ markets[k[2]].status = "active"
               /\ k[3] \in {markets[k[2]].yesTokenMint, markets[k[2]].noTokenMint})
                  => positions[k].amount = OnChainBalance(k[1], k[3])

(***************************************************************************)
(* SpecTreasury: the first reconciliation run of a process with a          *)
(* treasury address, each balance fetch going through withRetry on every   *)
(* sequence of outcomes of the RPC call; the database calls succeed.       *)
(***************************************************************************)
FetchOutcomes == [1..MAX_RETRIES -> {"ok", "e1"}]

NextTreasury ==
    \/ \E webhook \in BOOLEAN : fee.run = 0 /\ FeeBegin(TRUE, webhook)
    \/ \E groups \in FeeGroupInputs : FeeGroupBy(groups)
    \/ \E outcomes \in FetchOutcomes : FeeFetchBegin(outcomes)
    \/ RpcCall
    \/ RpcWake
    \/ \E accountBalance \in {NoBalance, Zero, Num(100)} : FeeFetchEnd(accountBalance)
    \/ FeeCreateRevenue
    \/ \E outcome \in {"skipped", "delivered", "failed"} : FeeSendAlert(outcome)

SpecTreasury == Init /\ [][NextTreasury]_vars

\* the groups of a run with a nonzero expected amount
NonZeroGroups(groups) == SelectSeq(groups, LAMBDA g : FeeOr0(g.sum) # Zero)

\* C36: a balance fetch that failed after all its retries does not fail the
\* run; its group is handled as one with an absent balance: the Revenue
\* snapshot of the expected amount is recorded and the 'missing treasury'
\* alert is chosen; a completed run has handled every group with a nonzero
\* expected amount and raised the alert of each.
C36_FailedFetchIsAbsentBalance ==
    /\ fee.pc # "failed"
    /\ \A k \in DOMAIN fee.handled :
        LET h == fee.handled[k]
        IN  /\ fee.startLen + k \in DOMAIN revenue
            /\ revenue[fee.startLen + k] =
                    [marketId |-> h.marketId, assetMint |-> h.tokenMint, amount |-> h.expected]
            /\ h.fetchFailed => /\ h.balanceInfo = NoBalance
                                /\ RLt(Zero, h.expected)
                                /\ h.alert = MissingTreasury
    /\ fee.pc = "done" =>
            /\ [k \in DOMAIN fee.handled |-> fee.handled[k].tokenMint]
                    = [k \in DOMAIN NonZeroGroups(fee.groups) |->
                            NonZeroGroups(fee.groups)[k].tokenMint]
            /\ Len(fee.alerts) = Len(AlertsOf(fee.handled))
            /\ \A k \in DOMAIN fee.alerts : fee.alerts[k].title = AlertsOf(fee.handled)[k]

\* a completed run over three groups: the fetch of the first failed three
\* times, those of the other two succeeded; three snapshots recorded and the
\* 'missing treasury' alert of the first group raised
C36_Witness ==
    /\ fee.pc = "done"
    /\ Len(fee.handled) = 3
    /\ fee.handled[1].fetchFailed
    /\ ~fee.handled[2].fetchFailed
    /\ ~fee.handled[3].fetchFailed
    /\ fee.handled[3].balanceInfo = Num(100)
    /\ fee.alerts[1].title = MissingTreasury
    /\ Len(revenue) = fee.startLen + 3

(***************************************************************************)
(* SpecStartStop: one start() and one stop() on a SolanaListener, stop()   *)
(* called at any point once start() has been called.                       *)
(***************************************************************************)
NextStartStop ==
    \/ ListenerStart
    \/ ListenerStep
    \/ ListenerStopDuringStart
    \/ ListenerStop
    \/ \E ok \in BOOLEAN : ListenerStopRemove(ok)

SpecStartStop == InitStart /\ [][NextStartStop]_vars

\* C37: once stop() has returned, no subscription becomes active unless
\* start() is called again: after a stop() that returned before anything was
\* subscribed (it had no subscription to remove), nothing is subscribed.
C37_NoSubscriptionAfterStop ==
    (lst.stopPc = "returned" /\ lst.asked = {}) => ~lst.subscribed

(***************************************************************************)
(* SpecFaucet: POST /onboarding/step3-faucet requests, two at a time, for  *)
(* a valid and for an invalid wallet, any awaited call rejecting.          *)
(***************************************************************************)
FaucetWallets == {SolanaWallet, OtherWallet}

NextFaucet ==
    \/ \E p \in Procs, wallet \in FaucetWallets : FaucetRequest(p, wallet)
    \/ \E p \in Procs : FaucetFindFirst(p)
    \/ \E p \in Procs : AwardUpsert(p)
    \/ \E p \in Procs : AwardCreate(p)
    \/ \E p \in Procs : AwardThrow(p)

SpecFaucet == Init /\ [][NextFaucet]_vars

BalanceOf(w) == IF w \in DOMAIN pointsBalance THEN pointsBalance[w] ELSE 0

LedgerRows(w) == {k \in DOMAIN pointsLedger : pointsLedger[k].walletAddress = w}

RECURSIVE LedgerSum(_)
LedgerSum(rows) ==
    IF rows = {} THEN 0
    ELSE LET k == CHOOSE x \in rows : TRUE
         IN  pointsLedger[k].amount + LedgerSum(rows \ {k})

\* C39: whatever step3-faucet requests were made, the ledger of a wallet
\* holds at most one 'completed_tutorial' entry and its balance was raised
\* by 100 at most once.
C39_TutorialAwardedOnce ==
    \A w \in FaucetWallets :
        /\ Cardinality({k \in LedgerRows(w) : pointsLedger[k].reason = TutorialReason}) <= 1
        /\ BalanceOf(w) <= 100

(***************************************************************************)
(* SpecPoints: the three routes that award points, two requests at a time, *)
(* any awaited call rejecting.                                             *)
(***************************************************************************)
NextPoints ==
    \/ NextFaucet
    \/ \E p \in Procs, wallet \in FaucetWallets, reason \in {"social_share", TutorialReason} :
            AwardRequest(p, wallet, 50, reason)
    \/ \E p \in Procs, wallet \in FaucetWallets : AwardRequest(p, wallet, 10, "daily_login")

SpecPoints == Init /\ [][NextPoints]_vars

\* C40: the committed points balance of every wallet is the sum of its
\* ledger entries, and a wallet has a balance row exactly when it has a
\* ledger entry: an award applies its increment and its ledger entry
\* together or not at all.
C40_BalanceIsLedgerSum ==
    \A w \in FaucetWallets :
        /\ BalanceOf(w) = LedgerSum(LedgerRows(w))
        /\ w \in DOMAIN pointsBalance <=> LedgerRows(w) # {}

\* an award of w1 was rolled back when its ledger insert rejected, after its
\* balance upsert; two other awards committed and the balance is their sum
C40_Witness ==
    /\ faucet["c1"].status = 500
    /\ faucet["c1"].failedAt = "create"
    /\ faucet["c1"].wallet = SolanaWallet
    /\ faucet["c2"].status = 200
    /\ Len(pointsLedger) = 2
    /\ BalanceOf(SolanaWallet) = 110
====
